---- MODULE Spec2Model ----
(***************************************************************************)
(* Model of package iox (crunchypi/iox): generic Reader[T] / Writer[T]     *)
(* capabilities and the combinators built on them.                         *)
(*                                                                         *)
(* A reader is a record holding the variables its Impl closure captured;   *)
(* a combinator's record holds the record of the reader it wraps in field  *)
(* r.  Read(rd, ctx) evaluates one call of rd.Read(ctx) and yields the     *)
(* returned value and error, the reader's state after the call, and the    *)
(* results the call obtained from the reader it wraps.  Writers are        *)
(* modelled the same way.  A caller holds one reader or one writer and     *)
(* calls it repeatedly.  Two parts refine a Read into steps: the loads and *)
(* stores of the NewReaderFrom closure under concurrent calls, and the     *)
(* nested calls of a pipeline.                                             *)
(***************************************************************************)
EXTENDS Integers, Sequences, FiniteSets, TLC

\* ---------------------------------------------------------------------------
\* Bounds.
\* ---------------------------------------------------------------------------

\* Values of T are 0..MaxVal.
MaxVal == 1
\* Longest argument list of NewReaderFrom.
MaxLen == 3
\* Largest batch size handed to a batching combinator.
MaxSize == 3
\* Longest behaviour of a caller-supplied Reader[T] / Writer[T] function.
MaxScript == 2
\* Longest behaviour of a caller-supplied Reader[[]T] function.
MaxBatches == 2
\* Longest list returned by a caller-supplied Reader[[]T] function.
MaxList == 2
\* Number of Read calls the caller makes.
MaxReads == 6
\* Number of Write calls the caller makes.
MaxWrites == 5
\* the largest byte slice a decoder passes to the byte source it reads
MaxSlice == 3
\* how many times the caller calls each method of an Impl struct
MaxCalls == 3

\* ---------------------------------------------------------------------------
\* State.
\* ---------------------------------------------------------------------------

VARIABLES
    rd,      \* the reader the caller holds (NilReader: none)
    out,     \* the results of the caller's Read calls, in call order
    pulled,  \* per Read call, the results rd obtained from the reader it wraps
    wr,      \* the writer the caller holds (NilWriter: none)
    win,     \* the values of the caller's Write calls, in call order
    wout,    \* the errors returned by the caller's Write calls, in call order
    pushed,  \* per Write call, the calls wr made to the writer it wraps
    obj,     \* the Impl struct with several methods the caller holds
    cout,    \* the errors returned by the caller's Close calls, in call order
    ctxs,    \* the contexts of the caller's calls that pass one of Contexts
    inflight \* the Read calls in progress

vars == <<rd, out, pulled, wr, win, wout, pushed, obj, cout, ctxs, inflight>>

\* ---------------------------------------------------------------------------
\* Values and errors.
\* ---------------------------------------------------------------------------

\* The zero value of T (T = int).
Zero == 0
\* A nil or empty slice.
NilList == <<>>

Values == 0..MaxVal

Nil == "nil"
EOF == "io.EOF"
ErrClosedPipe == "io.ErrClosedPipe"
\* An error that is neither of the two sentinels.
ErrCustom == "custom"

\* context.Background(): a context that is never done.
Background == "context.Background()"
\* A context whose cancel function has been called.
Cancelled == "cancelled context"
\* The nil context.Context.
NilCtx == "nil context"
\* The contexts a caller chooses from.
Contexts == {Background, Cancelled}

ErrCanceled == "context.Canceled"
\* ctx.Err()
CtxErr(ctx) == IF ctx = Cancelled THEN ErrCanceled ELSE Nil

\* No goroutine is in the middle of a call.
NoCalls == [call |-> <<>>, overlapped |-> FALSE]

Res(v, e) == [val |-> v, err |-> e]

SeqsUpTo(S, n) == UNION {[1..k -> S] : k \in 0..n}

RECURSIVE Concat(_)
Concat(ss) == IF ss = <<>> THEN <<>> ELSE Head(ss) \o Concat(Tail(ss))

Last(s) == s[Len(s)]

Min(a, b) == IF a <= b THEN a ELSE b

\* ---------------------------------------------------------------------------
\* Readers.
\* ---------------------------------------------------------------------------

\* A nil Reader interface value.
NilReader == [kind |-> "nil"]

\* ReaderImpl[T]{} : no Impl set.
EmptyReaderImpl(zero) == [kind |-> "none", zero |-> zero]

\* ReaderImpl[[]T]{} : no Impl set; its Read returns lists.
EmptyListReaderImpl == [kind |-> "none", zero |-> NilList, of |-> "lists"]

\* ReaderImpl[T]{Impl: fn} for a caller-supplied fn: its k-th call returns
\* script[k]; once the script is over it returns the zero value and io.EOF.
ScriptReader(script, zero) ==
    [kind |-> "script", script |-> script, pos |-> 0, zero |-> zero]

ScriptReaderImpl(rd_, ctx) ==
    IF rd_.pos >= Len(rd_.script)
    THEN [val |-> rd_.zero, err |-> EOF, rd |-> rd_, log |-> <<>>]
    ELSE [val |-> rd_.script[rd_.pos + 1].val,
          err |-> rd_.script[rd_.pos + 1].err,
          rd  |-> [rd_ EXCEPT !.pos = @ + 1],
          log |-> <<>>]

NewReaderFrom(vs, zero) ==
    [kind |-> "from", vs |-> vs, i |-> 0, zero |-> zero]

\* NewReaderFromImpl advancing the cursor before it tests it.
NewReaderFromImplAdvanceOnEOF(rd_, ctx) ==
    IF rd_.i >= Len(rd_.vs)
    THEN [val |-> rd_.zero, err |-> EOF,
          rd |-> [rd_ EXCEPT !.i = @ + 1], log |-> <<>>]
    ELSE [val |-> rd_.vs[rd_.i + 1], err |-> Nil,
          rd  |-> [rd_ EXCEPT !.i = @ + 1],
          log |-> <<>>]

NewReaderFromImpl(rd_, ctx) ==
    IF rd_.i >= Len(rd_.vs)
    THEN [val |-> rd_.zero, err |-> EOF, rd |-> rd_, log |-> <<>>]
    ELSE [val |-> rd_.vs[rd_.i + 1], err |-> Nil,
          rd  |-> [rd_ EXCEPT !.i = @ + 1],
          log |-> <<>>]

\* ReaderImpl[T]{Impl: fn} for a caller-supplied fn that honours its context:
\* it returns ctx.Err() when ctx is done and the next value of vs otherwise.
CtxReader(vs, zero) ==
    [kind |-> "ctx", vs |-> vs, i |-> 0, zero |-> zero]

\* ReaderImpl.Read hands its ctx to Impl.
CtxReaderImpl(rd_, ctx) ==
    IF CtxErr(ctx) # Nil
    THEN [val |-> rd_.zero, err |-> CtxErr(ctx), rd |-> rd_, log |-> <<>>]
    ELSE NewReaderFromImpl(rd_, ctx)

RECURSIVE Read(_, _)
RECURSIVE BatchingLoop(_, _, _, _, _, _)
RECURSIVE FilterLoop(_, _, _, _)
RECURSIVE BatchingLoopOffByOne(_, _, _, _, _, _)
RECURSIVE FilterLoopInverted(_, _, _, _)

\* BatchingLoop with the loop test i <= size.
BatchingLoopOffByOne(r, size, i, s, log, ctx) ==
    IF i > size
    THEN [r |-> r, s |-> s, errCache |-> Nil, log |-> log]
    ELSE LET x == Read(r, ctx)
         IN  IF x.err # Nil
             THEN [r |-> x.rd, s |-> s, errCache |-> x.err,
                   log |-> Append(log, Res(x.val, x.err))]
             ELSE BatchingLoopOffByOne(x.rd, size, i + 1, Append(s, x.val),
                                       Append(log, Res(x.val, x.err)), ctx)

\* NewReaderWithBatching: the for loop of Impl, about to test i < size.
\* s is the list collected so far, log the results pulled so far.
BatchingLoop(r, size, i, s, log, ctx) ==
    IF i >= size
    THEN [r |-> r, s |-> s, errCache |-> Nil, log |-> log]
    ELSE LET x == Read(r, ctx)
         IN  IF x.err # Nil
             THEN [r |-> x.rd, s |-> s, errCache |-> x.err,
                   log |-> Append(log, Res(x.val, x.err))]
             ELSE BatchingLoop(x.rd, size, i + 1, Append(s, x.val),
                               Append(log, Res(x.val, x.err)), ctx)

DefaultSize == 8

\* NewReaderWithBatching using the size as given, without the default.
NewReaderWithBatchingNoDefault(r, size) ==
    IF r.kind = "nil"
    THEN EmptyListReaderImpl
    ELSE [kind |-> "batching", r |-> r, arg |-> size, size |-> size,
          errCache |-> Nil]

\* arg keeps the size as the caller gave it; Impl reads size only.
NewReaderWithBatching(r, size) ==
    IF r.kind = "nil"
    THEN EmptyListReaderImpl
    ELSE [kind |-> "batching", r |-> r, arg |-> size,
          size |-> IF size <= 0 THEN DefaultSize ELSE size,
          errCache |-> Nil]

\* NewReaderWithBatchingImpl returning the failure at once, without the
\* elements collected before it.
NewReaderWithBatchingImplDropPartial(rd_, ctx) ==
    IF rd_.errCache # Nil
    THEN [val |-> <<>>, err |-> rd_.errCache, rd |-> rd_, log |-> <<>>]
    ELSE LET l == BatchingLoop(rd_.r, rd_.size, 0, <<>>, <<>>, ctx)
             n == [rd_ EXCEPT !.r = l.r, !.errCache = l.errCache]
         IN  IF l.errCache # Nil
             THEN [val |-> <<>>, err |-> l.errCache, rd |-> n, log |-> l.log]
             ELSE [val |-> l.s, err |-> Nil, rd |-> n, log |-> l.log]

\* NewReaderWithBatchingImpl returning the failure together with the
\* elements collected before it.
NewReaderWithBatchingImplErrWithPartial(rd_, ctx) ==
    IF rd_.errCache # Nil
    THEN [val |-> <<>>, err |-> rd_.errCache, rd |-> rd_, log |-> <<>>]
    ELSE LET l == BatchingLoop(rd_.r, rd_.size, 0, <<>>, <<>>, ctx)
             n == [rd_ EXCEPT !.r = l.r, !.errCache = l.errCache]
         IN  [val |-> l.s, err |-> l.errCache, rd |-> n, log |-> l.log]

\* NewReaderWithBatchingImpl keeping to itself a failure that came before any
\* element: it returns the empty list with a nil error.
NewReaderWithBatchingImplSwallowErr(rd_, ctx) ==
    IF rd_.errCache # Nil
    THEN [val |-> <<>>, err |-> rd_.errCache, rd |-> rd_, log |-> <<>>]
    ELSE LET l == BatchingLoop(rd_.r, rd_.size, 0, <<>>, <<>>, ctx)
             n == [rd_ EXCEPT !.r = l.r, !.errCache = l.errCache]
         IN  [val |-> l.s, err |-> Nil, rd |-> n, log |-> l.log]

\* NewReaderWithBatchingImpl pulling again after a failure.
NewReaderWithBatchingImplRetry(rd_, ctx) ==
    LET l == BatchingLoop(rd_.r, rd_.size, 0, <<>>, <<>>, ctx)
        n == [rd_ EXCEPT !.r = l.r, !.errCache = l.errCache]
    IN  IF l.errCache # Nil /\ Len(l.s) = 0
        THEN [val |-> l.s, err |-> l.errCache, rd |-> n, log |-> l.log]
        ELSE [val |-> l.s, err |-> Nil, rd |-> n, log |-> l.log]

NewReaderWithBatchingImpl(rd_, ctx) ==
    IF rd_.errCache # Nil
    THEN [val |-> <<>>, err |-> rd_.errCache, rd |-> rd_, log |-> <<>>]
    ELSE LET l == BatchingLoop(rd_.r, rd_.size, 0, <<>>, <<>>, ctx)
             n == [rd_ EXCEPT !.r = l.r, !.errCache = l.errCache]
         IN  IF l.errCache # Nil /\ Len(l.s) = 0
             THEN [val |-> l.s, err |-> l.errCache, rd |-> n, log |-> l.log]
             ELSE [val |-> l.s, err |-> Nil, rd |-> n, log |-> l.log]

\* NewReaderWithUnbatching wrapping the reader it is given even when it is nil.
NewReaderWithUnbatchingNoNilCheck(r) ==
    [kind |-> "unbatching", r |-> r, buf |-> <<>>, errCache |-> Nil]

NewReaderWithUnbatching(r) ==
    IF r.kind = "nil"
    THEN EmptyReaderImpl(Zero)
    ELSE [kind |-> "unbatching", r |-> r, buf |-> <<>>, errCache |-> Nil]

\* NewReaderWithUnbatchingImpl returning the failure that came with a
\* non-empty list at once, without the list.
NewReaderWithUnbatchingImplDropOnErr(rd_, ctx) ==
    IF Len(rd_.buf) > 0
    THEN [val |-> Head(rd_.buf), err |-> Nil,
          rd |-> [rd_ EXCEPT !.buf = Tail(@)], log |-> <<>>]
    ELSE IF rd_.errCache # Nil
    THEN [val |-> Zero, err |-> rd_.errCache, rd |-> rd_, log |-> <<>>]
    ELSE LET x == Read(rd_.r, ctx)
             buf == x.val
             err == x.err
             log == <<Res(x.val, x.err)>>
         IN  CASE Len(buf) = 0 /\ err # Nil ->
                    [val |-> Zero, err |-> err,
                     rd |-> [rd_ EXCEPT !.r = x.rd, !.buf = buf],
                     log |-> log]
               [] Len(buf) = 0 /\ err = Nil ->
                    [val |-> Zero, err |-> EOF,
                     rd |-> [rd_ EXCEPT !.r = x.rd, !.buf = buf],
                     log |-> log]
               [] Len(buf) # 0 /\ err # Nil ->
                    [val |-> Zero, err |-> err,
                     rd |-> [rd_ EXCEPT !.r = x.rd, !.buf = <<>>],
                     log |-> log]
               [] Len(buf) # 0 /\ err = Nil ->
                    [val |-> Head(buf), err |-> Nil,
                     rd |-> [rd_ EXCEPT !.r = x.rd, !.buf = Tail(buf)],
                     log |-> log]

\* NewReaderWithUnbatchingImpl caching the failure of an empty list too.
NewReaderWithUnbatchingImplCacheEmpty(rd_, ctx) ==
    IF Len(rd_.buf) > 0
    THEN [val |-> Head(rd_.buf), err |-> Nil,
          rd |-> [rd_ EXCEPT !.buf = Tail(@)], log |-> <<>>]
    ELSE IF rd_.errCache # Nil
    THEN [val |-> Zero, err |-> rd_.errCache, rd |-> rd_, log |-> <<>>]
    ELSE LET x == Read(rd_.r, ctx)
             buf == x.val
             err == x.err
             log == <<Res(x.val, x.err)>>
         IN  CASE Len(buf) = 0 /\ err # Nil ->
                    [val |-> Zero, err |-> err,
                     rd |-> [rd_ EXCEPT !.r = x.rd, !.buf = buf,
                                        !.errCache = err],
                     log |-> log]
               [] Len(buf) = 0 /\ err = Nil ->
                    [val |-> Zero, err |-> EOF,
                     rd |-> [rd_ EXCEPT !.r = x.rd, !.buf = buf,
                                        !.errCache = EOF],
                     log |-> log]
               [] Len(buf) # 0 /\ err # Nil ->
                    [val |-> Head(buf), err |-> Nil,
                     rd |-> [rd_ EXCEPT !.r = x.rd, !.buf = Tail(buf),
                                        !.errCache = err],
                     log |-> log]
               [] Len(buf) # 0 /\ err = Nil ->
                    [val |-> Head(buf), err |-> Nil,
                     rd |-> [rd_ EXCEPT !.r = x.rd, !.buf = Tail(buf)],
                     log |-> log]

\* NewReaderWithUnbatchingImpl forgetting the failure that came with a
\* non-empty list.
NewReaderWithUnbatchingImplNoCache(rd_, ctx) ==
    IF Len(rd_.buf) > 0
    THEN [val |-> Head(rd_.buf), err |-> Nil,
          rd |-> [rd_ EXCEPT !.buf = Tail(@)], log |-> <<>>]
    ELSE IF rd_.errCache # Nil
    THEN [val |-> Zero, err |-> rd_.errCache, rd |-> rd_, log |-> <<>>]
    ELSE LET x == Read(rd_.r, ctx)
             buf == x.val
             err == x.err
             log == <<Res(x.val, x.err)>>
         IN  CASE Len(buf) = 0 /\ err # Nil ->
                    [val |-> Zero, err |-> err,
                     rd |-> [rd_ EXCEPT !.r = x.rd, !.buf = buf],
                     log |-> log]
               [] Len(buf) = 0 /\ err = Nil ->
                    [val |-> Zero, err |-> EOF,
                     rd |-> [rd_ EXCEPT !.r = x.rd, !.buf = buf],
                     log |-> log]
               [] Len(buf) # 0 /\ err # Nil ->
                    [val |-> Head(buf), err |-> Nil,
                     rd |-> [rd_ EXCEPT !.r = x.rd, !.buf = Tail(buf)],
                     log |-> log]
               [] Len(buf) # 0 /\ err = Nil ->
                    [val |-> Head(buf), err |-> Nil,
                     rd |-> [rd_ EXCEPT !.r = x.rd, !.buf = Tail(buf)],
                     log |-> log]

\* NewReaderWithUnbatchingImpl returning no failure for an empty list that
\* came with none.
NewReaderWithUnbatchingImplNilOnEmpty(rd_, ctx) ==
    IF Len(rd_.buf) > 0
    THEN [val |-> Head(rd_.buf), err |-> Nil,
          rd |-> [rd_ EXCEPT !.buf = Tail(@)], log |-> <<>>]
    ELSE IF rd_.errCache # Nil
    THEN [val |-> Zero, err |-> rd_.errCache, rd |-> rd_, log |-> <<>>]
    ELSE LET x == Read(rd_.r, ctx)
             buf == x.val
             err == x.err
             log == <<Res(x.val, x.err)>>
         IN  CASE Len(buf) = 0 /\ err # Nil ->
                    [val |-> Zero, err |-> err,
                     rd |-> [rd_ EXCEPT !.r = x.rd, !.buf = buf],
                     log |-> log]
               [] Len(buf) = 0 /\ err = Nil ->
                    [val |-> Zero, err |-> Nil,
                     rd |-> [rd_ EXCEPT !.r = x.rd, !.buf = buf],
                     log |-> log]
               [] Len(buf) # 0 /\ err # Nil ->
                    [val |-> Head(buf), err |-> Nil,
                     rd |-> [rd_ EXCEPT !.r = x.rd, !.buf = Tail(buf),
                                        !.errCache = err],
                     log |-> log]
               [] Len(buf) # 0 /\ err = Nil ->
                    [val |-> Head(buf), err |-> Nil,
                     rd |-> [rd_ EXCEPT !.r = x.rd, !.buf = Tail(buf)],
                     log |-> log]

\* NewReaderWithUnbatchingImpl returning the cached failure once only.
NewReaderWithUnbatchingImplForget(rd_, ctx) ==
    IF Len(rd_.buf) > 0
    THEN [val |-> Head(rd_.buf), err |-> Nil,
          rd |-> [rd_ EXCEPT !.buf = Tail(@)], log |-> <<>>]
    ELSE IF rd_.errCache # Nil
    THEN [val |-> Zero, err |-> rd_.errCache,
          rd |-> [rd_ EXCEPT !.errCache = Nil], log |-> <<>>]
    ELSE LET x == Read(rd_.r, ctx)
             buf == x.val
             err == x.err
             log == <<Res(x.val, x.err)>>
         IN  CASE Len(buf) = 0 /\ err # Nil ->
                    [val |-> Zero, err |-> err,
                     rd |-> [rd_ EXCEPT !.r = x.rd, !.buf = buf],
                     log |-> log]
               [] Len(buf) = 0 /\ err = Nil ->
                    [val |-> Zero, err |-> EOF,
                     rd |-> [rd_ EXCEPT !.r = x.rd, !.buf = buf],
                     log |-> log]
               [] Len(buf) # 0 /\ err # Nil ->
                    [val |-> Head(buf), err |-> Nil,
                     rd |-> [rd_ EXCEPT !.r = x.rd, !.buf = Tail(buf),
                                        !.errCache = err],
                     log |-> log]
               [] Len(buf) # 0 /\ err = Nil ->
                    [val |-> Head(buf), err |-> Nil,
                     rd |-> [rd_ EXCEPT !.r = x.rd, !.buf = Tail(buf)],
                     log |-> log]

\* NewReaderWithUnbatchingImpl pulling the next list while elements are
\* still waiting.
NewReaderWithUnbatchingImplEager(rd_, ctx) ==
    IF Len(rd_.buf) > 0 /\ rd_.errCache # Nil
    THEN [val |-> Head(rd_.buf), err |-> Nil,
          rd |-> [rd_ EXCEPT !.buf = Tail(@)], log |-> <<>>]
    ELSE IF Len(rd_.buf) > 0
    THEN LET x == Read(rd_.r, ctx)
         IN  [val |-> Head(rd_.buf), err |-> Nil,
              rd |-> [rd_ EXCEPT !.r = x.rd, !.buf = Tail(@) \o x.val,
                                 !.errCache = x.err],
              log |-> <<Res(x.val, x.err)>>]
    ELSE IF rd_.errCache # Nil
    THEN [val |-> Zero, err |-> rd_.errCache, rd |-> rd_, log |-> <<>>]
    ELSE LET x == Read(rd_.r, ctx)
             buf == x.val
             err == x.err
             log == <<Res(x.val, x.err)>>
         IN  CASE Len(buf) = 0 /\ err # Nil ->
                    [val |-> Zero, err |-> err,
                     rd |-> [rd_ EXCEPT !.r = x.rd, !.buf = buf],
                     log |-> log]
               [] Len(buf) = 0 /\ err = Nil ->
                    [val |-> Zero, err |-> EOF,
                     rd |-> [rd_ EXCEPT !.r = x.rd, !.buf = buf],
                     log |-> log]
               [] Len(buf) # 0 /\ err # Nil ->
                    [val |-> Head(buf), err |-> Nil,
                     rd |-> [rd_ EXCEPT !.r = x.rd, !.buf = Tail(buf),
                                        !.errCache = err],
                     log |-> log]
               [] Len(buf) # 0 /\ err = Nil ->
                    [val |-> Head(buf), err |-> Nil,
                     rd |-> [rd_ EXCEPT !.r = x.rd, !.buf = Tail(buf)],
                     log |-> log]

NewReaderWithUnbatchingImpl(rd_, ctx) ==
    IF Len(rd_.buf) > 0
    THEN [val |-> Head(rd_.buf), err |-> Nil,
          rd |-> [rd_ EXCEPT !.buf = Tail(@)], log |-> <<>>]
    ELSE IF rd_.errCache # Nil
    THEN [val |-> Zero, err |-> rd_.errCache, rd |-> rd_, log |-> <<>>]
    ELSE LET x == Read(rd_.r, ctx)
             buf == x.val
             err == x.err
             log == <<Res(x.val, x.err)>>
         IN  CASE Len(buf) = 0 /\ err # Nil ->
                    [val |-> Zero, err |-> err,
                     rd |-> [rd_ EXCEPT !.r = x.rd, !.buf = buf],
                     log |-> log]
               [] Len(buf) = 0 /\ err = Nil ->
                    [val |-> Zero, err |-> EOF,
                     rd |-> [rd_ EXCEPT !.r = x.rd, !.buf = buf],
                     log |-> log]
               [] Len(buf) # 0 /\ err # Nil ->
                    [val |-> Head(buf), err |-> Nil,
                     rd |-> [rd_ EXCEPT !.r = x.rd, !.buf = Tail(buf),
                                        !.errCache = err],
                     log |-> log]
               [] Len(buf) # 0 /\ err = Nil ->
                    [val |-> Head(buf), err |-> Nil,
                     rd |-> [rd_ EXCEPT !.r = x.rd, !.buf = Tail(buf)],
                     log |-> log]

\* A nil function value, and a non-nil one: a predicate func(v T) bool is the
\* set of the values it accepts, a mapper func(T) U a function on Values.
NoFn == [isNil |-> TRUE]

Fn(f) == [isNil |-> FALSE, fn |-> f]

\* NewReaderWithFilterFn treating a nil f as NewReaderWithMapperFn does: it
\* returns an empty reader.
NewReaderWithFilterFnNilFnEmpty(r, f) ==
    IF r.kind = "nil" \/ f.isNil
    THEN EmptyReaderImpl(Zero)
    ELSE [kind |-> "filter", r |-> r, f |-> f]

NewReaderWithFilterFn(r, f) ==
    IF r.kind = "nil"
    THEN EmptyReaderImpl(Zero)
    ELSE IF f.isNil
    THEN r
    ELSE [kind |-> "filter", r |-> r, f |-> f]

\* FilterLoop with the test of the predicate negated.
FilterLoopInverted(r, f, log, ctx) ==
    LET x == Read(r, ctx)
        l == Append(log, Res(x.val, x.err))
    IN  IF x.err = Nil
        THEN IF x.val \notin f.fn
             THEN [val |-> x.val, err |-> x.err, r |-> x.rd, log |-> l]
             ELSE FilterLoopInverted(x.rd, f, l, ctx)
        ELSE [val |-> x.val, err |-> x.err, r |-> x.rd, log |-> l]

\* NewReaderWithFilterFn: the for loop of Impl, about to call r.Read.
FilterLoop(r, f, log, ctx) ==
    LET x == Read(r, ctx)
        l == Append(log, Res(x.val, x.err))
    IN  IF x.err = Nil
        THEN IF x.val \in f.fn
             THEN [val |-> x.val, err |-> x.err, r |-> x.rd, log |-> l]
             ELSE FilterLoop(x.rd, f, l, ctx)
        ELSE [val |-> x.val, err |-> x.err, r |-> x.rd, log |-> l]

NewReaderWithFilterFnImpl(rd_, ctx) ==
    LET l == FilterLoop(rd_.r, rd_.f, <<>>, ctx)
    IN  [val |-> l.val, err |-> l.err,
         rd |-> [rd_ EXCEPT !.r = l.r], log |-> l.log]

\* calls counts the invocations of f.
\* NewReaderWithMapperFn treating a nil f as NewReaderWithFilterFn does: it
\* returns r.
NewReaderWithMapperFnNilFnIdentity(r, f) ==
    IF r.kind = "nil"
    THEN EmptyReaderImpl(Zero)
    ELSE IF f.isNil
         THEN r
         ELSE [kind |-> "mapper", r |-> r, f |-> f, calls |-> 0]

NewReaderWithMapperFn(r, f) ==
    IF r.kind = "nil" \/ f.isNil
    THEN EmptyReaderImpl(Zero)
    ELSE [kind |-> "mapper", r |-> r, f |-> f, calls |-> 0]

\* NewReaderWithMapperFnImpl applying f before it tests the error.
NewReaderWithMapperFnImplCallOnErr(rd_, ctx) ==
    LET x == Read(rd_.r, ctx)
        log == <<Res(x.val, x.err)>>
    IN  [val |-> rd_.f.fn[x.val], err |-> x.err,
         rd |-> [rd_ EXCEPT !.r = x.rd, !.calls = @ + 1], log |-> log]

\* NewReaderWithMapperFnImpl reading under a context of its own.
NewReaderWithMapperFnImplOwnCtx(rd_, ctx) ==
    LET x == Read(rd_.r, Background)
        log == <<Res(x.val, x.err)>>
    IN  IF x.err # Nil
        THEN [val |-> Zero, err |-> x.err,
              rd |-> [rd_ EXCEPT !.r = x.rd], log |-> log]
        ELSE [val |-> rd_.f.fn[x.val], err |-> x.err,
              rd |-> [rd_ EXCEPT !.r = x.rd, !.calls = @ + 1], log |-> log]

NewReaderWithMapperFnImpl(rd_, ctx) ==
    LET x == Read(rd_.r, ctx)
        log == <<Res(x.val, x.err)>>
    IN  IF x.err # Nil
        THEN [val |-> Zero, err |-> x.err,
              rd |-> [rd_ EXCEPT !.r = x.rd], log |-> log]
        ELSE [val |-> rd_.f.fn[x.val], err |-> x.err,
              rd |-> [rd_ EXCEPT !.r = x.rd, !.calls = @ + 1], log |-> log]

\* --- Readers over bytes -----------------------------------------------------

\* The bytes are characters.  json.Encoder writes a value as its decimal
\* digits and a newline; the values of the model have one digit.
NL == "\n"

Digits == <<"0", "1", "2", "3", "4", "5", "6", "7", "8", "9">>

\* Encoder.Encode(v), with e := json.NewEncoder(b): the bytes appended to b.
Encode(v) == <<Digits[v + 1], NL>>

DigitValue(c) == CHOOSE v \in 0..9 : Digits[v + 1] = c

RECURSIVE ParseInt(_)
ParseInt(cs) ==
    IF cs = <<>>
    THEN 0
    ELSE 10 * ParseInt(SubSeq(cs, 1, Len(cs) - 1)) + DigitValue(Last(cs))

RECURSIVE SkipSpace(_)
SkipSpace(cs) ==
    IF cs # <<>> /\ Head(cs) = NL THEN SkipSpace(Tail(cs)) ELSE cs

\* The index of the first newline of cs, 0 when it has none.
RECURSIVE IndexNL(_, _)
IndexNL(cs, i) ==
    IF i > Len(cs) THEN 0 ELSE IF cs[i] = NL THEN i ELSE IndexNL(cs, i + 1)

\* What a strategy f returns when it returns nil.
NilCodec == [kind |-> "nil"]

\* json.NewEncoder(b)
JSONEncoder == [kind |-> "json"]

\* EncoderImpl{} : no Impl set.
EmptyEncoderImpl == [kind |-> "none"]

\* EncoderImpl{Impl: fn} for a caller-supplied fn: its k-th call returns
\* script[k], writing what json.Encoder writes when that is nil and nothing
\* otherwise; once the script is over it returns nil.
ScriptEncoder(script) == [kind |-> "script", script |-> script, pos |-> 0]

\* e.Encode(v): the bytes written to b, the failure, and e after the call.
EncoderEncode(e, v) ==
    CASE e.kind = "json" -> [bytes |-> Encode(v), err |-> Nil, e |-> e]
      [] e.kind = "none" -> [bytes |-> <<>>, err |-> ErrClosedPipe, e |-> e]
      [] e.kind = "script" ->
             LET err == IF e.pos >= Len(e.script)
                        THEN Nil
                        ELSE e.script[e.pos + 1]
             IN  [bytes |-> IF err = Nil THEN Encode(v) ELSE <<>>,
                  err |-> err,
                  e |-> [e EXCEPT !.pos = Min(@ + 1, Len(e.script))]]

\* The encoder in use after f is consulted: json.NewEncoder(b) unless f is
\* set and returns an encoder.
encoderFn(f) ==
    IF f.isNil THEN JSONEncoder
    ELSE IF f.fn.kind = "nil" THEN JSONEncoder ELSE f.fn

\* readWriteCloserImpl{} : no ImplR set.
EmptyByteReader == [kind |-> "none"]

\* The bytes.Buffer a byte writer keeps: b is its unread content.
BytesBuffer(b) == [kind |-> "buffer", b |-> b]

\* b.Read(p) with len(p) = n.
BytesBufferRead(br, n) ==
    IF br.b = <<>>
    THEN [bytes |-> <<>>, err |-> EOF, br |-> br, log |-> <<>>]
    ELSE LET k == Min(n, Len(br.b))
         IN  [bytes |-> SubSeq(br.b, 1, k), err |-> Nil,
              br |-> [br EXCEPT !.b = SubSeq(@, k + 1, Len(@))],
              log |-> <<>>]

\* b is the unread content of the bytes.Buffer the encoder writes into.
NewReaderFromValues(r, f) ==
    IF r.kind = "nil"
    THEN EmptyByteReader
    ELSE [kind |-> "fromvalues", r |-> r, b |-> <<>>, e |-> encoderFn(f)]

\* The rest of ImplR returning io.EOF when e.Encode(v) fails.
encodeAndReadMapsEOF(br, n, x) ==
    LET y == EncoderEncode(br.e, x.val)
    IN  IF x.err # Nil
        THEN [bytes |-> <<>>, err |-> x.err,
              br |-> [br EXCEPT !.r = x.rd],
              log |-> <<Res(x.val, x.err)>>]
        ELSE IF y.err # Nil
        THEN [bytes |-> <<>>, err |-> EOF,
              br |-> [br EXCEPT !.r = x.rd, !.e = y.e],
              log |-> <<Res(x.val, x.err)>>]
        ELSE LET b == br.b \o y.bytes
                 k == Min(n, Len(b))
             IN  [bytes |-> SubSeq(b, 1, k), err |-> Nil,
                  br |-> [br EXCEPT !.r = x.rd, !.e = y.e,
                                    !.b = SubSeq(b, k + 1, Len(b))],
                  log |-> <<Res(x.val, x.err)>>]

\* The rest of ImplR(p), with len(p) = n, once r.Read has returned x: the
\* value is encoded into b, and b.Read(p) then takes up to n bytes off the
\* front of the buffer.
encodeAndRead(br, n, x) ==
    LET y == EncoderEncode(br.e, x.val)
    IN  IF x.err # Nil
        THEN [bytes |-> <<>>, err |-> x.err,
              br |-> [br EXCEPT !.r = x.rd],
              log |-> <<Res(x.val, x.err)>>]
        ELSE IF y.err # Nil
        THEN [bytes |-> <<>>, err |-> y.err,
              br |-> [br EXCEPT !.r = x.rd, !.e = y.e],
              log |-> <<Res(x.val, x.err)>>]
        ELSE LET b == br.b \o y.bytes
                 k == Min(n, Len(b))
             IN  [bytes |-> SubSeq(b, 1, k), err |-> Nil,
                  br |-> [br EXCEPT !.r = x.rd, !.e = y.e,
                                    !.b = SubSeq(b, k + 1, Len(b))],
                  log |-> <<Res(x.val, x.err)>>]

\* ImplR(p) with len(p) = n: a value is pulled and encoded at every call.
NewReaderFromValuesImplR(br, n) ==
    encodeAndRead(br, n, Read(br.r, Background))

\* r.Read(p) with len(p) = n, for the io.Reader r a decoder reads.
ByteRead(br, n) ==
    IF br.kind = "none"
    THEN [bytes |-> <<>>, err |-> EOF, br |-> br, log |-> <<>>]
    ELSE IF br.kind = "buffer"
         THEN BytesBufferRead(br, n)
         ELSE NewReaderFromValuesImplR(br, n)

\* json.NewDecoder(r)
JSONDecoder == [kind |-> "json"]

\* DecoderImpl{} : no Impl set.
EmptyDecoderImpl == [kind |-> "none"]

\* DecoderImpl{Impl: fn} for a caller-supplied fn: its k-th call returns
\* script[k] and reads nothing; once the script is over it returns io.EOF.
ScriptDecoder(script) == [kind |-> "script", script |-> script, pos |-> 0]

\* The decoder in use after f is consulted: json.NewDecoder(r) unless f is
\* set and returns a decoder.
decoderFn(f) ==
    IF f.isNil THEN JSONDecoder
    ELSE IF f.fn.kind = "nil" THEN JSONDecoder ELSE f.fn

\* d := json.NewDecoder(r), a decoder that reads r with slices of n bytes:
\* buf holds the bytes read and not yet decoded, err the failure it keeps.
NewReaderFromBytes(r, n, f) ==
    IF r.kind = "nil"
    THEN EmptyReaderImpl(Zero)
    ELSE [kind |-> "frombytes", r |-> r, n |-> n, buf |-> <<>>, err |-> Nil,
          d |-> decoderFn(f)]

\* Decoder.Decode(&v): the buffered bytes are scanned for a whole value; when
\* there is none the failure of the last byte Read ends the call (at io.EOF a
\* number not yet followed by a newline is whole), else more bytes are
\* read.  Each byte Read is logged with the number of bytes the source held
\* before it and with the pulls the source made.
RECURSIVE DecodeLoop(_, _, _)

\* The decoder has read the bytes x off its source and scans again.
refill(d, cs, log, x) ==
    DecodeLoop([d EXCEPT !.r = x.br, !.buf = cs \o x.bytes],
               x.err,
               Append(log, [val |-> x.bytes, err |-> x.err,
                            held |-> Len(d.r.b), pulls |-> x.log]))

DecodeLoop(d, err, log) ==
    LET cs == SkipSpace(d.buf)
        k == IndexNL(cs, 1)
    IN  IF k > 0
        THEN [val |-> ParseInt(SubSeq(cs, 1, k - 1)), err |-> Nil,
              rd |-> [d EXCEPT !.buf = SubSeq(cs, k + 1, Len(cs))],
              log |-> log]
        ELSE IF err # Nil
             THEN IF err = EOF /\ cs # <<>>
                  THEN [val |-> ParseInt(cs), err |-> Nil,
                        rd |-> [d EXCEPT !.buf = <<>>], log |-> log]
                  ELSE [val |-> Zero, err |-> err,
                        rd |-> [d EXCEPT !.buf = cs, !.err = err],
                        log |-> log]
             ELSE refill(d, cs, log, ByteRead(d.r, d.n))

\* json.Decoder.Decode(&v): a failure once met is returned ever after.
JSONDecode(d) ==
    IF d.err # Nil
    THEN [val |-> Zero, err |-> d.err, rd |-> d, log |-> <<>>]
    ELSE DecodeLoop(d, Nil, <<>>)

\* d.Decode(&v)
DecoderDecode(d) ==
    CASE d.d.kind = "json" -> JSONDecode(d)
      [] d.d.kind = "none" ->
             [val |-> Zero, err |-> EOF, rd |-> d, log |-> <<>>]
      [] d.d.kind = "script" ->
             IF d.d.pos >= Len(d.d.script)
             THEN [val |-> Zero, err |-> EOF, rd |-> d, log |-> <<>>]
             ELSE [val |-> d.d.script[d.d.pos + 1].val,
                   err |-> d.d.script[d.d.pos + 1].err,
                   rd  |-> [d EXCEPT !.d.pos = @ + 1],
                   log |-> <<>>]

\* err = d.Decode(&v); return
NewReaderFromBytesImpl(rd_, ctx) == DecoderDecode(rd_)

\* --- Impl structs with several methods --------------------------------------

\* A field of an Impl struct is NoFn or Fn(x), a function of the caller that
\* returns x at every call.

\* The caller holds no such struct.
NoObj == [type |-> "none"]

ReadCloserImpl(c, r) ==
    [type |-> "ReadCloserImpl", ImplC |-> c, ImplR |-> r]

ReadCloserImplClose(impl) ==
    IF impl.ImplC.isNil THEN Nil ELSE impl.ImplC.fn

ReadCloserImplRead(impl) ==
    IF impl.ImplR.isNil THEN Res(Zero, EOF) ELSE impl.ImplR.fn

WriteCloserImpl(c, w) ==
    [type |-> "WriteCloserImpl", ImplC |-> c, ImplW |-> w]

WriteCloserImplClose(impl) ==
    IF impl.ImplC.isNil THEN Nil ELSE impl.ImplC.fn

WriteCloserImplWrite(impl, v) ==
    IF impl.ImplW.isNil THEN ErrClosedPipe ELSE impl.ImplW.fn

ReadWriterImpl(r, w) ==
    [type |-> "ReadWriterImpl", ImplR |-> r, ImplW |-> w]

ReadWriterImplRead(impl) ==
    IF impl.ImplR.isNil THEN Res(Zero, EOF) ELSE impl.ImplR.fn

\* ReadWriterImpl.Write returning io.EOF when ImplW is not set.
ReadWriterImplWriteEOF(impl, v) ==
    IF impl.ImplW.isNil THEN EOF ELSE impl.ImplW.fn

ReadWriterImplWrite(impl, v) ==
    IF impl.ImplW.isNil THEN ErrClosedPipe ELSE impl.ImplW.fn

ReadWriteCloserImpl(c, r, w) ==
    [type |-> "ReadWriteCloserImpl", ImplC |-> c, ImplR |-> r, ImplW |-> w]

\* A func literal of NewReadWriterFrom; the slice buf it closes over is the
\* field buf of the struct that holds it.
Closure(name) == [isNil |-> FALSE, closure |-> name]

\* NewReadWriterFrom(vs...). The field arg keeps the arguments.
NewReadWriterFrom(vs) ==
    [type |-> "ReadWriteCloserImpl", ImplC |-> NoFn,
     ImplR |-> Closure("ImplR"), ImplW |-> Closure("ImplW"),
     buf |-> vs, arg |-> vs]

\* ImplR of NewReadWriterFrom taking the value appended last.
NewReadWriterFromImplRPop(impl) ==
    IF Len(impl.buf) = 0
    THEN [res |-> Res(Zero, EOF), impl |-> impl]
    ELSE [res  |-> Res(Last(impl.buf), Nil),
          impl |-> [impl EXCEPT !.buf = SubSeq(@, 1, Len(@) - 1)]]

\* ImplR of NewReadWriterFrom: the result and the struct after the call.
NewReadWriterFromImplR(impl) ==
    IF Len(impl.buf) = 0
    THEN [res |-> Res(Zero, EOF), impl |-> impl]
    ELSE [res  |-> Res(impl.buf[1], Nil),
          impl |-> [impl EXCEPT !.buf = Tail(@)]]

\* ImplW of NewReadWriterFrom: the result and the struct after the call.
NewReadWriterFromImplW(impl, v) ==
    [err |-> Nil, impl |-> [impl EXCEPT !.buf = Append(@, v)]]

\* impl.ImplR(ctx), for an ImplR that is set.
ImplRCall(impl) ==
    IF "closure" \in DOMAIN impl.ImplR
    THEN NewReadWriterFromImplR(impl)
    ELSE [res |-> impl.ImplR.fn, impl |-> impl]

\* impl.ImplW(ctx, v), for an ImplW that is set.
ImplWCall(impl, v) ==
    IF "closure" \in DOMAIN impl.ImplW
    THEN NewReadWriterFromImplW(impl, v)
    ELSE [err |-> impl.ImplW.fn, impl |-> impl]

ReadWriteCloserImplClose(impl) ==
    IF impl.ImplC.isNil THEN Nil ELSE impl.ImplC.fn

ReadWriteCloserImplRead(impl) ==
    IF impl.ImplR.isNil THEN Res(Zero, EOF) ELSE ImplRCall(impl).res

ReadWriteCloserImplWrite(impl, v) ==
    IF impl.ImplW.isNil THEN ErrClosedPipe ELSE ImplWCall(impl, v).err

\* The struct after impl.Read(ctx) and after impl.Write(ctx, v).
AfterRead(impl) ==
    IF impl.ImplR.isNil THEN impl ELSE ImplRCall(impl).impl

AfterWrite(impl, v) ==
    IF impl.ImplW.isNil THEN impl ELSE ImplWCall(impl, v).impl

\* A ReadWriter that the caller hands to a combinator as its Reader[T] and
\* keeps writing to.
ReadWriterAsReader(impl) == [kind |-> "readwriter", impl |-> impl]

\* impl.Read(ctx) of the struct the reader stands for.
ReadWriterAsReaderImpl(rd_, ctx) ==
    [val |-> ReadWriteCloserImplRead(rd_.impl).val,
     err |-> ReadWriteCloserImplRead(rd_.impl).err,
     rd  |-> [rd_ EXCEPT !.impl = AfterRead(@)],
     log |-> <<>>]

\* ReaderImpl[T].Read
Read(r, ctx) ==
    IF r.kind = "none"
    THEN [val |-> r.zero, err |-> EOF, rd |-> r, log |-> <<>>]
    ELSE CASE r.kind = "script"     -> ScriptReaderImpl(r, ctx)
           [] r.kind = "ctx"        -> CtxReaderImpl(r, ctx)
           [] r.kind = "from"       -> NewReaderFromImpl(r, ctx)
           [] r.kind = "batching"   -> NewReaderWithBatchingImpl(r, ctx)
           [] r.kind = "unbatching" -> NewReaderWithUnbatchingImpl(r, ctx)
           [] r.kind = "filter"     -> NewReaderWithFilterFnImpl(r, ctx)
           [] r.kind = "mapper"     -> NewReaderWithMapperFnImpl(r, ctx)
           [] r.kind = "frombytes"  -> NewReaderFromBytesImpl(r, ctx)
           [] r.kind = "readwriter" -> ReadWriterAsReaderImpl(r, ctx)

\* ---------------------------------------------------------------------------
\* Writers.
\* ---------------------------------------------------------------------------

\* A nil Writer interface value.
NilWriter == [kind |-> "nil"]

\* WriterImpl[T]{} : no Impl set.
EmptyWriterImpl == [kind |-> "none"]

\* WriterImpl[T]{Impl: fn} for a caller-supplied fn: it records the value in
\* s and its k-th call returns script[k]; once the script is over it returns
\* nil.  With an empty script it is the newSliceWriter of the tests.
ScriptWriter(script) ==
    [kind |-> "script", script |-> script, pos |-> 0, s |-> <<>>]

newSliceWriter == ScriptWriter(<<>>)

ScriptWriterImpl(w, v, ctx) ==
    [err |-> IF w.pos >= Len(w.script) THEN Nil ELSE w.script[w.pos + 1],
     wr  |-> [w EXCEPT !.pos = Min(@ + 1, Len(w.script)),
                       !.s = Append(@, v)],
     log |-> <<>>]

\* WriterImpl[T]{Impl: fn} for a caller-supplied fn that honours its context:
\* it returns ctx.Err() when ctx is done and records the value in s otherwise.
CtxWriter == [kind |-> "ctx", s |-> <<>>]

\* WriterImpl.Write hands its ctx to Impl.
CtxWriterImpl(w, v, ctx) ==
    IF CtxErr(ctx) # Nil
    THEN [err |-> CtxErr(ctx), wr |-> w, log |-> <<>>]
    ELSE [err |-> Nil, wr |-> [w EXCEPT !.s = Append(@, v)], log |-> <<>>]

\* The constructor panicked: the caller got no writer.
Panicked == [kind |-> "panic"]

RECURSIVE Write(_, _, _)

\* make([]T, 0, size) panics when size is negative.
NewWriterWithBatching(w, size) ==
    IF w.kind = "nil"
    THEN EmptyWriterImpl
    ELSE IF size < 0
         THEN Panicked
         ELSE [kind |-> "batching", w |-> w, size |-> size, buf |-> <<>>]

\* NewWriterWithBatchingImpl keeping its buffer after a flush.
NewWriterWithBatchingImplNoReset(wr_, val, ctx) ==
    LET buf == Append(wr_.buf, val)
    IN  IF Len(buf) >= wr_.size
        THEN LET x == Write(wr_.w, buf, ctx)
             IN  [err |-> x.err,
                  wr |-> [wr_ EXCEPT !.w = x.wr, !.buf = buf],
                  log |-> <<Res(buf, x.err)>>]
        ELSE [err |-> Nil, wr |-> [wr_ EXCEPT !.buf = buf], log |-> <<>>]

\* NewWriterWithBatchingImpl keeping the values of a flush that failed.
NewWriterWithBatchingImplKeepFailed(wr_, val, ctx) ==
    LET buf == Append(wr_.buf, val)
    IN  IF Len(buf) >= wr_.size
        THEN LET x == Write(wr_.w, buf, ctx)
             IN  [err |-> x.err,
                  wr |-> [wr_ EXCEPT !.w = x.wr,
                                     !.buf = IF x.err = Nil THEN <<>> ELSE buf],
                  log |-> <<Res(buf, x.err)>>]
        ELSE [err |-> Nil, wr |-> [wr_ EXCEPT !.buf = buf], log |-> <<>>]

\* NewWriterWithBatchingImpl flushing once the buffer holds more than size
\* values.
NewWriterWithBatchingImplLateFlush(wr_, val, ctx) ==
    LET buf == Append(wr_.buf, val)
    IN  IF Len(buf) > wr_.size
        THEN LET x == Write(wr_.w, buf, ctx)
             IN  [err |-> x.err,
                  wr |-> [wr_ EXCEPT !.w = x.wr, !.buf = <<>>],
                  log |-> <<Res(buf, x.err)>>]
        ELSE [err |-> Nil, wr |-> [wr_ EXCEPT !.buf = buf], log |-> <<>>]

NewWriterWithBatchingImpl(wr_, val, ctx) ==
    LET buf == Append(wr_.buf, val)
    IN  IF Len(buf) >= wr_.size
        THEN LET x == Write(wr_.w, buf, ctx)
             IN  [err |-> x.err,
                  wr |-> [wr_ EXCEPT !.w = x.wr, !.buf = <<>>],
                  log |-> <<Res(buf, x.err)>>]
        ELSE [err |-> Nil, wr |-> [wr_ EXCEPT !.buf = buf], log |-> <<>>]

\* WriterImpl[[]T]{} : no Impl set; its Write takes lists.
EmptyListWriterImpl == [kind |-> "none", of |-> "lists"]

NewWriterWithUnbatching(w) ==
    IF w.kind = "nil"
    THEN EmptyListWriterImpl
    ELSE [kind |-> "unbatching", w |-> w]

RECURSIVE UnbatchingWrites(_, _, _, _)
RECURSIVE UnbatchingWritesKeepGoing(_, _, _, _, _)

\* The loop of NewWriterWithUnbatchingImpl going on after a failure, to return
\* the failure of the last element that failed.
UnbatchingWritesKeepGoing(w, vs, log, err, ctx) ==
    IF vs = <<>>
    THEN [err |-> err, wr |-> w, log |-> log]
    ELSE LET x == Write(w, Head(vs), ctx)
         IN  UnbatchingWritesKeepGoing(
                 x.wr, Tail(vs), Append(log, Res(Head(vs), x.err)),
                 IF x.err # Nil THEN x.err ELSE err, ctx)

\* for _, v := range vs { err = w.Write(ctx, v); if err != nil { return } }
UnbatchingWrites(w, vs, log, ctx) ==
    IF vs = <<>>
    THEN [err |-> Nil, wr |-> w, log |-> log]
    ELSE LET x == Write(w, Head(vs), ctx)
         IN  IF x.err # Nil
             THEN [err |-> x.err, wr |-> x.wr,
                   log |-> Append(log, Res(Head(vs), x.err))]
             ELSE UnbatchingWrites(x.wr, Tail(vs),
                                   Append(log, Res(Head(vs), x.err)), ctx)

\* NewWriterWithUnbatchingImpl writing every element whatever the failures.
NewWriterWithUnbatchingImplKeepGoing(wr_, vs, ctx) ==
    LET x == UnbatchingWritesKeepGoing(wr_.w, vs, <<>>, Nil, ctx)
    IN  [err |-> x.err, wr |-> [wr_ EXCEPT !.w = x.wr], log |-> x.log]

NewWriterWithUnbatchingImpl(wr_, vs, ctx) ==
    LET x == UnbatchingWrites(wr_.w, vs, <<>>, ctx)
    IN  [err |-> x.err, wr |-> [wr_ EXCEPT !.w = x.wr], log |-> x.log]

\* NewWriterWithFilterFn testing f before w: a nil f returns w, also when w
\* is nil.
NewWriterWithFilterFnNilFirst(w, f) ==
    IF f.isNil
    THEN w
    ELSE IF w.kind = "nil"
         THEN EmptyWriterImpl
         ELSE [kind |-> "filter", w |-> w, f |-> f]

NewWriterWithFilterFn(w, f) ==
    IF w.kind = "nil"
    THEN EmptyWriterImpl
    ELSE IF f.isNil
         THEN w
         ELSE [kind |-> "filter", w |-> w, f |-> f]

\* NewWriterWithFilterFnImpl writing the values f rejects.
NewWriterWithFilterFnImplInverted(wr_, v, ctx) ==
    IF v \in wr_.f.fn
    THEN [err |-> Nil, wr |-> wr_, log |-> <<>>]
    ELSE LET x == Write(wr_.w, v, ctx)
         IN  [err |-> x.err, wr |-> [wr_ EXCEPT !.w = x.wr],
              log |-> <<Res(v, x.err)>>]

NewWriterWithFilterFnImpl(wr_, v, ctx) ==
    IF v \notin wr_.f.fn
    THEN [err |-> Nil, wr |-> wr_, log |-> <<>>]
    ELSE LET x == Write(wr_.w, v, ctx)
         IN  [err |-> x.err, wr |-> [wr_ EXCEPT !.w = x.wr],
              log |-> <<Res(v, x.err)>>]

\* --- Writers over bytes -----------------------------------------------------

\* An io.Writer of the caller: it keeps the bytes it accepts in s, and its
\* k-th call returns script[k], accepting every byte when that is nil and no
\* byte otherwise; once the script is over it accepts every byte.
ByteSink(script) ==
    [kind |-> "sink", script |-> script, pos |-> 0, s |-> <<>>]

\* w.Write(p): the number of bytes accepted and the error.
ByteWrite(w, p) ==
    LET err == IF w.pos >= Len(w.script) THEN Nil ELSE w.script[w.pos + 1]
    IN  [n |-> IF err = Nil THEN Len(p) ELSE 0,
         err |-> err,
         w |-> [w EXCEPT !.pos = Min(@ + 1, Len(w.script)),
                         !.s = IF err = Nil THEN @ \o p ELSE @]]

\* b is the unread content of the bytes.Buffer the encoder writes into.
NewWriterFromValues(w, f) ==
    IF w.kind = "nil"
    THEN EmptyWriterImpl
    ELSE [kind |-> "fromvalues", w |-> w, b |-> <<>>, e |-> encoderFn(f)]

\* Impl of NewWriterFromValues leaving the encoded bytes in b until the
\* next Write.
NewWriterFromValuesImplLate(wr_, v, ctx) ==
    LET y == EncoderEncode(wr_.e, v)
        x == ByteWrite(wr_.w, wr_.b)
    IN  IF y.err # Nil
        THEN [err |-> y.err, wr |-> [wr_ EXCEPT !.e = y.e], log |-> <<>>]
        ELSE [err |-> x.err,
              wr |-> [wr_ EXCEPT !.w = x.w, !.e = y.e,
                                 !.b = SubSeq(@, x.n + 1, Len(@)) \o y.bytes],
              log |-> <<Res(wr_.b, x.err)>>]

\* e.Encode(v), then b.WriteTo(w): one w.Write of the whole buffer, which
\* keeps the bytes w did not accept.
NewWriterFromValuesImpl(wr_, v, ctx) ==
    LET y == EncoderEncode(wr_.e, v)
        b == wr_.b \o y.bytes
        x == ByteWrite(wr_.w, b)
    IN  IF y.err # Nil
        THEN [err |-> y.err, wr |-> [wr_ EXCEPT !.e = y.e], log |-> <<>>]
        ELSE [err |-> x.err,
              wr |-> [wr_ EXCEPT !.w = x.w, !.e = y.e,
                                 !.b = SubSeq(b, x.n + 1, Len(b))],
              log |-> <<Res(b, x.err)>>]

\* WriterImpl[T].Write returning io.EOF when Impl is not set.
WriteEOF(w, v, ctx) ==
    IF w.kind = "none"
    THEN [err |-> EOF, wr |-> w, log |-> <<>>]
    ELSE CASE w.kind = "script"     -> ScriptWriterImpl(w, v, ctx)
           [] w.kind = "ctx"        -> CtxWriterImpl(w, v, ctx)
           [] w.kind = "batching"   -> NewWriterWithBatchingImpl(w, v, ctx)
           [] w.kind = "unbatching" -> NewWriterWithUnbatchingImpl(w, v, ctx)
           [] w.kind = "filter"     -> NewWriterWithFilterFnImpl(w, v, ctx)
           [] w.kind = "fromvalues" -> NewWriterFromValuesImpl(w, v, ctx)

\* WriterImpl[T].Write
Write(w, v, ctx) ==
    IF w.kind = "none"
    THEN [err |-> ErrClosedPipe, wr |-> w, log |-> <<>>]
    ELSE CASE w.kind = "script"     -> ScriptWriterImpl(w, v, ctx)
           [] w.kind = "ctx"        -> CtxWriterImpl(w, v, ctx)
           [] w.kind = "batching"   -> NewWriterWithBatchingImpl(w, v, ctx)
           [] w.kind = "unbatching" -> NewWriterWithUnbatchingImpl(w, v, ctx)
           [] w.kind = "filter"     -> NewWriterWithFilterFnImpl(w, v, ctx)
           [] w.kind = "fromvalues" -> NewWriterFromValuesImpl(w, v, ctx)

\* readWriteCloserImpl{} : no ImplW set.
EmptyByteWriter == [kind |-> "none", of |-> "bytes"]

\* d decodes the bytes.Buffer b that ImplW writes into, reading it with
\* slices of n bytes.
NewWriterFromBytes(w, n, f) ==
    IF w.kind = "nil"
    THEN EmptyByteWriter
    ELSE [kind |-> "bytewriter", w |-> w,
          d |-> [kind |-> "frombytes", r |-> BytesBuffer(<<>>), n |-> n,
                 buf |-> <<>>, err |-> Nil, d |-> decoderFn(f)]]

\* The end of ImplW(p), returning nil whatever w.Write returned.
forwardDropErr(wr_, p, x, y) ==
    [n |-> Len(p), err |-> Nil,
     wr |-> [wr_ EXCEPT !.d = x.rd, !.w = y.wr],
     log |-> <<Res(x.val, y.err)>>]

\* The end of ImplW(p), once w.Write(nil, v) has returned y.
forward(wr_, p, x, y) ==
    [n |-> Len(p), err |-> y.err,
     wr |-> [wr_ EXCEPT !.d = x.rd, !.w = y.wr],
     log |-> <<Res(x.val, y.err)>>]

\* The rest of ImplW(p) once d.Decode(&v) has returned x.
decoded(wr_, p, x) ==
    IF x.err # Nil
    THEN [n |-> Len(p), err |-> x.err,
          wr |-> [wr_ EXCEPT !.d = x.rd], log |-> <<>>]
    ELSE forward(wr_, p, x, Write(wr_.w, x.val, NilCtx))

\* The second round of an ImplW(p) that decodes and writes until the
\* decoder has no whole value left: a is the outcome of the first round, x
\* what the second d.Decode(&v) returned.
drained(a, p, x) ==
    IF x.err # Nil
    THEN a
    ELSE [n |-> Len(p), err |-> Write(a.wr.w, x.val, NilCtx).err,
          wr |-> [a.wr EXCEPT !.d = x.rd,
                              !.w = Write(a.wr.w, x.val, NilCtx).wr],
          log |-> a.log \o <<Res(x.val, Write(a.wr.w, x.val, NilCtx).err)>>]

\* The start of that second round.
drain(a, p) ==
    IF a.log = <<>> \/ a.err # Nil
    THEN a
    ELSE drained(a, p, DecoderDecode(a.wr.d))

\* ImplW(p) passing on two values when the decoder holds them.
NewWriterFromBytesImplWDrain(wr_, p) ==
    drain(decoded(wr_, p, DecoderDecode([wr_.d EXCEPT !.r.b = @ \o p])), p)

\* ImplW(p): b.Write(p) takes the whole of p; one d.Decode(&v); w.Write(v).
NewWriterFromBytesImplW(wr_, p) ==
    decoded(wr_, p, DecoderDecode([wr_.d EXCEPT !.r.b = @ \o p]))

\* readWriteCloserImpl.Write(p)
readWriteCloserImplWrite(wr_, p) ==
    IF wr_.kind = "none"
    THEN [n |-> 0, err |-> ErrClosedPipe, wr |-> wr_, log |-> <<>>]
    ELSE NewWriterFromBytesImplW(wr_, p)

\* ---------------------------------------------------------------------------
\* The caller.
\* ---------------------------------------------------------------------------

Sizes == 1..MaxSize

Errs == {EOF, ErrCustom}

\* What a caller-supplied Reader[T] function may return on one call.
ValueResults ==
    {Res(v, Nil) : v \in Values} \cup {Res(v, e) : v \in Values, e \in Errs}

\* What a caller-supplied Reader[[]T] function may return on one call: a list
\* of some length with or without a failure.
ListShapes == (0..MaxList) \X ({Nil} \cup Errs)

\* The results of the given shapes; their lists hold the successive integers
\* above n, so that every element read is told from every other.
RECURSIVE NumberedLists(_, _)
NumberedLists(shapes, n) ==
    IF shapes = <<>>
    THEN <<>>
    ELSE <<Res([j \in 1..Head(shapes)[1] |-> n + j], Head(shapes)[2])>>
         \o NumberedLists(Tail(shapes), n + Head(shapes)[1])

\* The readers of T a pipeline is built on.
ValueSources ==
    {NewReaderFrom(vs, Zero) : vs \in SeqsUpTo(Values, MaxLen)}
    \cup {ScriptReader(sc, Zero) : sc \in SeqsUpTo(ValueResults, MaxScript)}

ListSources ==
    {ScriptReader(NumberedLists(sh, 0), NilList) :
         sh \in SeqsUpTo(ListShapes, MaxBatches)}

Predicates == {Fn(f) : f \in SUBSET Values}

Mappers == {Fn(f) : f \in [Values -> Values]}

Readers ==
    {NewReaderFrom(vs, Zero) : vs \in SeqsUpTo(Values, MaxLen)}
    \cup {NewReaderWithBatching(r, n) : r \in ValueSources, n \in Sizes}
    \cup {NewReaderWithUnbatching(r) : r \in ListSources}
    \cup {NewReaderWithUnbatching(
              NewReaderWithBatching(NewReaderFrom(vs, Zero), n)) :
              vs \in SeqsUpTo(Values, MaxLen), n \in Sizes}
    \cup {NewReaderWithFilterFn(r, f) : r \in ValueSources, f \in Predicates}
    \cup {NewReaderWithMapperFn(r, f) : r \in ValueSources, f \in Mappers}

WriteErrs == {Nil, ErrClosedPipe, ErrCustom}

Writers ==
    {NewWriterWithBatching(ScriptWriter(sc), n) :
         sc \in SeqsUpTo(WriteErrs, MaxScript), n \in Sizes}

Init ==
    /\ \/ rd \in Readers /\ wr = NilWriter
       \/ rd = NilReader /\ wr \in Writers
    /\ out = <<>>
    /\ pulled = <<>>
    /\ win = <<>>
    /\ wout = <<>>
    /\ pushed = <<>>
    /\ obj = NoObj
    /\ cout = <<>>
    /\ ctxs = <<>>
    /\ inflight = NoCalls

\* The caller calls rd.Read(ctx).
CallRead ==
    /\ rd.kind # "nil"
    /\ Len(out) < MaxReads
    /\ LET x == Read(rd, Background)
       IN  /\ rd' = x.rd
           /\ out' = Append(out, Res(x.val, x.err))
           /\ pulled' = Append(pulled, x.log)
    /\ UNCHANGED <<wr, win, wout, pushed, obj, cout, ctxs, inflight>>

\* The writer w is a Writer[[]T].
TakesLists(w) ==
    \/ w.kind = "unbatching"
    \/ w.kind = "none" /\ "of" \in DOMAIN w /\ w.of = "lists"

\* The writer w is an io.Writer.
TakesBytes(w) ==
    \/ w.kind = "bytewriter"
    \/ w.kind = "none" /\ "of" \in DOMAIN w /\ w.of = "bytes"

\* The caller calls wr.Write(ctx, v).
CallWrite ==
    /\ wr.kind \notin {"nil", "panic"}
    /\ ~TakesLists(wr)
    /\ ~TakesBytes(wr)
    /\ Len(win) < MaxWrites
    /\ \E v \in Values :
          LET x == Write(wr, v, Background)
          IN  /\ wr' = x.wr
              /\ win' = Append(win, v)
              /\ wout' = Append(wout, x.err)
              /\ pushed' = Append(pushed, x.log)
    /\ UNCHANGED <<rd, out, pulled, obj, cout, ctxs, inflight>>

Next == CallRead \/ CallWrite

Spec == Init /\ [][Next]_vars

\* The caller calls wr.Write(ctx, vs) on a Writer[[]T]; the lists it writes
\* hold the successive integers, so that every element is told from every
\* other.
CallWriteList ==
    /\ TakesLists(wr)
    /\ Len(win) < MaxWrites
    /\ \E n \in 0..MaxList :
          LET vs == [j \in 1..n |-> Len(Concat(win)) + j]
              x == Write(wr, vs, Background)
          IN  /\ wr' = x.wr
              /\ win' = Append(win, vs)
              /\ wout' = Append(wout, x.err)
              /\ pushed' = Append(pushed, x.log)
    /\ UNCHANGED <<rd, out, pulled, obj, cout, ctxs, inflight>>

\* --- Batching with a size that is not positive ------------------------------

NonPositiveSizes == (0 - MaxSize)..0

\* vs of TestNewReaderWithBatchingIdeal: one value more than a default batch.
LongValues == [k \in 1..(DefaultSize + 1) |-> k]

InitSizes ==
    /\ \/ /\ \E r \in ValueSources \cup {NewReaderFrom(LongValues, Zero)},
                n \in NonPositiveSizes \cup {DefaultSize} :
                  rd = NewReaderWithBatching(r, n)
          /\ wr = NilWriter
       \/ /\ rd = NilReader
          /\ \E sc \in SeqsUpTo(WriteErrs, MaxScript), n \in NonPositiveSizes :
                  wr = NewWriterWithBatching(ScriptWriter(sc), n)
    /\ out = <<>>
    /\ pulled = <<>>
    /\ win = <<>>
    /\ wout = <<>>
    /\ pushed = <<>>
    /\ obj = NoObj
    /\ cout = <<>>
    /\ ctxs = <<>>
    /\ inflight = NoCalls

SpecSizes == InitSizes /\ [][Next]_vars

\* --- Impl structs, and constructors given no reader or writer ----------------

HasRead(o) ==
    o.type \in {"ReadCloserImpl", "ReadWriterImpl", "ReadWriteCloserImpl"}

HasWrite(o) ==
    o.type \in {"WriteCloserImpl", "ReadWriterImpl", "ReadWriteCloserImpl"}

HasClose(o) ==
    o.type \in {"ReadCloserImpl", "WriteCloserImpl", "ReadWriteCloserImpl"}

\* The caller calls obj.Read(ctx).
CallImplRead ==
    /\ HasRead(obj)
    /\ Len(out) < MaxCalls
    /\ LET x == CASE obj.type = "ReadCloserImpl" -> ReadCloserImplRead(obj)
                  [] obj.type = "ReadWriterImpl" -> ReadWriterImplRead(obj)
                  [] obj.type = "ReadWriteCloserImpl" ->
                         ReadWriteCloserImplRead(obj)
       IN  out' = Append(out, x)
    /\ obj' = AfterRead(obj)
    /\ UNCHANGED <<rd, pulled, wr, win, wout, pushed, cout, ctxs,
                   inflight>>

\* The caller calls obj.Write(ctx, v).
CallImplWrite ==
    /\ HasWrite(obj)
    /\ Len(win) < MaxCalls
    /\ \E v \in Values :
          LET e == CASE obj.type = "WriteCloserImpl" ->
                            WriteCloserImplWrite(obj, v)
                     [] obj.type = "ReadWriterImpl" ->
                            ReadWriterImplWrite(obj, v)
                     [] obj.type = "ReadWriteCloserImpl" ->
                            ReadWriteCloserImplWrite(obj, v)
          IN  /\ win' = Append(win, v)
              /\ wout' = Append(wout, e)
              /\ obj' = AfterWrite(obj, v)
    /\ UNCHANGED <<rd, out, pulled, wr, pushed, cout, ctxs, inflight>>

\* The caller calls obj.Close().
CallImplClose ==
    /\ HasClose(obj)
    /\ Len(cout) < MaxCalls
    /\ LET e == CASE obj.type = "ReadCloserImpl" -> ReadCloserImplClose(obj)
                  [] obj.type = "WriteCloserImpl" -> WriteCloserImplClose(obj)
                  [] obj.type = "ReadWriteCloserImpl" ->
                         ReadWriteCloserImplClose(obj)
       IN  cout' = Append(cout, e)
    /\ UNCHANGED <<rd, out, pulled, wr, win, wout, pushed, obj, ctxs,
                   inflight>>

ReadFns == {NoFn} \cup {Fn(x) : x \in ValueResults}

WriteFns == {NoFn} \cup {Fn(e) : e \in WriteErrs}

CloseFns == {NoFn} \cup {Fn(e) : e \in WriteErrs}

ImplStructs ==
    {ReadCloserImpl(c, r) : c \in CloseFns, r \in ReadFns}
    \cup {WriteCloserImpl(c, w) : c \in CloseFns, w \in WriteFns}
    \cup {ReadWriterImpl(r, w) : r \in ReadFns, w \in WriteFns}
    \cup {ReadWriteCloserImpl(c, r, w) :
              c \in CloseFns, r \in ReadFns, w \in WriteFns}

\* ReaderImpl[T]{}, and what the constructors return for a nil reader.
AbsentReaders ==
    {EmptyReaderImpl(Zero),
     NewReaderWithUnbatching(NilReader),
     NewReaderFromBytes(NilReader, MaxSlice, NoFn)}
    \cup {NewReaderWithBatching(NilReader, n) : n \in NonPositiveSizes \cup Sizes}
    \cup {NewReaderWithFilterFn(NilReader, f) : f \in Predicates \cup {NoFn}}
    \cup {NewReaderWithMapperFn(NilReader, f) : f \in Mappers \cup {NoFn}}
    \cup {NewReaderWithMapperFn(r, NoFn) : r \in ValueSources}

\* WriterImpl[T]{}, and what the constructors return for a nil writer.
AbsentWriters ==
    {EmptyWriterImpl,
     NewWriterWithUnbatching(NilWriter),
     NewWriterFromValues(NilWriter, NoFn)}
    \cup {NewWriterWithBatching(NilWriter, n) : n \in NonPositiveSizes \cup Sizes}
    \cup {NewWriterWithFilterFn(NilWriter, f) : f \in Predicates \cup {NoFn}}

InitEmpty ==
    /\ \/ obj \in ImplStructs /\ rd = NilReader /\ wr = NilWriter
       \/ obj = NoObj /\ rd \in AbsentReaders /\ wr = NilWriter
       \/ obj = NoObj /\ rd = NilReader /\ wr \in AbsentWriters
    /\ out = <<>>
    /\ pulled = <<>>
    /\ win = <<>>
    /\ wout = <<>>
    /\ pushed = <<>>
    /\ cout = <<>>
    /\ ctxs = <<>>
    /\ inflight = NoCalls

NextEmpty ==
    \/ CallRead
    \/ CallWrite
    \/ CallWriteList
    \/ CallImplRead
    \/ CallImplWrite
    \/ CallImplClose

SpecEmpty == InitEmpty /\ [][NextEmpty]_vars

\* --- NewReadWriterFrom ------------------------------------------------------

InitReadWriter ==
    /\ \E vs \in SeqsUpTo(Values, MaxLen) : obj = NewReadWriterFrom(vs)
    /\ rd = NilReader
    /\ wr = NilWriter
    /\ out = <<>>
    /\ pulled = <<>>
    /\ win = <<>>
    /\ wout = <<>>
    /\ pushed = <<>>
    /\ cout = <<>>
    /\ ctxs = <<>>
    /\ inflight = NoCalls

NextReadWriter ==
    \/ CallImplRead
    \/ CallImplWrite
    \/ CallImplClose

SpecReadWriter == InitReadWriter /\ [][NextReadWriter]_vars

\* --- Filters given no predicate ----------------------------------------------

InitNilFilter ==
    /\ \/ /\ \E r \in ValueSources : rd = NewReaderWithFilterFn(r, NoFn)
          /\ wr = NilWriter
       \/ /\ rd = NilReader
          /\ \E sc \in SeqsUpTo(WriteErrs, MaxScript) :
                 wr = NewWriterWithFilterFn(ScriptWriter(sc), NoFn)
    /\ out = <<>>
    /\ pulled = <<>>
    /\ win = <<>>
    /\ wout = <<>>
    /\ pushed = <<>>
    /\ obj = NoObj
    /\ cout = <<>>
    /\ ctxs = <<>>
    /\ inflight = NoCalls

SpecNilFilter == InitNilFilter /\ [][Next]_vars

\* --- Values to bytes and back -----------------------------------------------

Slices == 1..MaxSlice

InitBytes ==
    /\ \E r \in ValueSources, n \in Slices :
          rd = NewReaderFromBytes(NewReaderFromValues(r, NoFn), n, NoFn)
    /\ wr = NilWriter
    /\ out = <<>>
    /\ pulled = <<>>
    /\ win = <<>>
    /\ wout = <<>>
    /\ pushed = <<>>
    /\ obj = NoObj
    /\ cout = <<>>
    /\ ctxs = <<>>
    /\ inflight = NoCalls

NextBytes == CallRead

SpecBytes == InitBytes /\ [][NextBytes]_vars

\* --- Encode and decode strategies -------------------------------------------

\* What a caller-supplied encoder or decoder returns.
CodecErrs == {Nil, ErrCustom}

EncoderFns ==
    {NoFn, Fn(NilCodec), Fn(EmptyEncoderImpl)}
    \cup {Fn(ScriptEncoder(sc)) : sc \in SeqsUpTo(CodecErrs, MaxScript)}

DecodeResults == {Res(v, Nil) : v \in Values} \cup {Res(Zero, ErrCustom)}

DecoderFns ==
    {NoFn, Fn(NilCodec), Fn(EmptyDecoderImpl)}
    \cup {Fn(ScriptDecoder(sc)) : sc \in SeqsUpTo(DecodeResults, MaxScript)}

\* What the caller writes to an io.Writer at one call: one encoded value, two
\* encoded values, or a lone newline.
Payloads ==
    {Encode(v) : v \in Values}
    \cup {Encode(0) \o Encode(MaxVal), <<NL>>}

\* The caller calls wr.Write(p) on an io.Writer.
CallByteWrite ==
    /\ TakesBytes(wr)
    /\ Len(win) < MaxCalls
    /\ \E p \in Payloads :
          LET x == readWriteCloserImplWrite(wr, p)
          IN  /\ wr' = x.wr
              /\ win' = Append(win, p)
              /\ wout' = Append(wout, [n |-> x.n, err |-> x.err])
              /\ pushed' = Append(pushed, x.log)
    /\ UNCHANGED <<rd, out, pulled, obj, cout, ctxs, inflight>>

InitCodec ==
    /\ \/ /\ \E vs \in SeqsUpTo(Values, MaxLen), n \in Slices :
                 \/ \E f \in EncoderFns :
                        rd = NewReaderFromBytes(
                                 NewReaderFromValues(NewReaderFrom(vs, Zero), f),
                                 n, NoFn)
                 \/ \E f \in DecoderFns :
                        rd = NewReaderFromBytes(
                                 NewReaderFromValues(NewReaderFrom(vs, Zero),
                                                     NoFn),
                                 n, f)
          /\ wr = NilWriter
       \/ /\ rd = NilReader
          /\ \/ \E f \in EncoderFns :
                    wr = NewWriterFromValues(ByteSink(<<>>), f)
             \/ \E sc \in SeqsUpTo(WriteErrs, MaxScript) :
                    \E f \in {NoFn, Fn(NilCodec)} :
                       wr = NewWriterFromBytes(ScriptWriter(sc), MaxSlice, f)
             \/ \E w \in {NilWriter, newSliceWriter}, f \in DecoderFns :
                    wr = NewWriterFromBytes(w, MaxSlice, f)
    /\ out = <<>>
    /\ pulled = <<>>
    /\ win = <<>>
    /\ wout = <<>>
    /\ pushed = <<>>
    /\ obj = NoObj
    /\ cout = <<>>
    /\ ctxs = <<>>
    /\ inflight = NoCalls

NextCodec == CallRead \/ CallWrite \/ CallByteWrite

SpecCodec == InitCodec /\ [][NextCodec]_vars

\* --- Unbatching and filtering writers ---------------------------------------

InitWriters ==
    /\ rd = NilReader
    /\ \E sc \in SeqsUpTo(WriteErrs, MaxScript) :
          \/ wr = NewWriterWithUnbatching(ScriptWriter(sc))
          \/ \E f \in Predicates \cup {NoFn} :
                 wr = NewWriterWithFilterFn(ScriptWriter(sc), f)
          \/ wr = NewWriterFromValues(ByteSink(sc), NoFn)
    /\ out = <<>>
    /\ pulled = <<>>
    /\ win = <<>>
    /\ wout = <<>>
    /\ pushed = <<>>
    /\ obj = NoObj
    /\ cout = <<>>
    /\ ctxs = <<>>
    /\ inflight = NoCalls

NextWriters == CallWrite \/ CallWriteList

SpecWriters == InitWriters /\ [][NextWriters]_vars

\* ---------------------------------------------------------------------------
\* Goroutines calling Read on one NewReaderFrom at the same time.
\* ---------------------------------------------------------------------------

\* Number of goroutines that share the reader.
MaxGoroutines == 2

Goroutines == 1..MaxGoroutines

\* A goroutine that is not inside Read.
Idle == [pc |-> "idle", seen |-> 0, val |-> Zero, tmp |-> 0]

\* The closure of NewReaderFrom reads and writes its cursor i with plain
\* loads and stores.  At each later use of i the compiled closure either
\* reuses the value it loaded before (seen) or loads i again (the data race
\* leaves both to the build).
CursorReads(c) == {c.seen, rd.i}

\* i++ that stores the cursor it loaded.
StoreCursorStuck(rd_, tmp) == [rd_ EXCEPT !.i = tmp]

\* i++ : the store of the incremented cursor.
StoreCursor(rd_, tmp) == [rd_ EXCEPT !.i = tmp + 1]

\* Some Read call hit an index out of range: the program has crashed.
Crashed == \E g \in DOMAIN inflight.call : inflight.call[g].pc = "panic"

InFlight == {g \in DOMAIN inflight.call : inflight.call[g].pc # "idle"}

\* A goroutine enters rd.Read(ctx).
BeginRead ==
    /\ ~Crashed
    /\ Len(out) + Cardinality(InFlight) < MaxReads
    /\ \E g \in Goroutines :
          /\ inflight.call[g].pc = "idle"
          /\ inflight' =
                [call |-> [inflight.call EXCEPT ![g].pc = "test"],
                 overlapped |-> inflight.overlapped \/ InFlight # {}]
    /\ UNCHANGED <<rd, out, pulled, wr, win, wout, pushed, obj, cout, ctxs>>

\* if i >= len(vs) { return val, io.EOF }
TestCursor ==
    /\ ~Crashed
    /\ \E g \in Goroutines :
          /\ inflight.call[g].pc = "test"
          /\ IF rd.i >= Len(rd.vs)
             THEN /\ out' = Append(out, Res(rd.zero, EOF))
                  /\ pulled' = Append(pulled, <<>>)
                  /\ inflight' = [inflight EXCEPT !.call[g] = Idle]
             ELSE /\ inflight' = [inflight EXCEPT !.call[g].pc = "index",
                                                  !.call[g].seen = rd.i]
                  /\ UNCHANGED <<out, pulled>>
    /\ UNCHANGED <<rd, wr, win, wout, pushed, obj, cout, ctxs>>

\* val = vs[i]
IndexValue ==
    /\ ~Crashed
    /\ \E g \in Goroutines :
          /\ inflight.call[g].pc = "index"
          /\ \E idx \in CursorReads(inflight.call[g]) :
                inflight' =
                    IF idx >= Len(rd.vs)
                    THEN [inflight EXCEPT !.call[g].pc = "panic"]
                    ELSE [inflight EXCEPT !.call[g].pc = "inc",
                                          !.call[g].seen = idx,
                                          !.call[g].val = rd.vs[idx + 1]]
    /\ UNCHANGED <<rd, out, pulled, wr, win, wout, pushed, obj, cout, ctxs>>

\* i++ : the load of the cursor.
LoadCursor ==
    /\ ~Crashed
    /\ \E g \in Goroutines :
          /\ inflight.call[g].pc = "inc"
          /\ \E t \in CursorReads(inflight.call[g]) :
                inflight' = [inflight EXCEPT !.call[g].pc = "store",
                                             !.call[g].tmp = t]
    /\ UNCHANGED <<rd, out, pulled, wr, win, wout, pushed, obj, cout, ctxs>>

\* i++ : the store of the cursor, and the return of val and a nil error.
StoreAndReturn ==
    /\ ~Crashed
    /\ \E g \in Goroutines :
          /\ inflight.call[g].pc = "store"
          /\ rd' = StoreCursor(rd, inflight.call[g].tmp)
          /\ out' = Append(out, Res(inflight.call[g].val, Nil))
          /\ pulled' = Append(pulled, <<>>)
          /\ inflight' = [inflight EXCEPT !.call[g] = Idle]
    /\ UNCHANGED <<wr, win, wout, pushed, obj, cout, ctxs>>

\* NewReaderFrom(1, ..., n): every element is told from every other.
InitConcurrent ==
    /\ \E n \in 0..MaxLen : rd = NewReaderFrom([j \in 1..n |-> j], Zero)
    /\ out = <<>>
    /\ pulled = <<>>
    /\ wr = NilWriter
    /\ win = <<>>
    /\ wout = <<>>
    /\ pushed = <<>>
    /\ obj = NoObj
    /\ cout = <<>>
    /\ ctxs = <<>>
    /\ inflight = [call |-> [g \in Goroutines |-> Idle], overlapped |-> FALSE]

NextConcurrent ==
    BeginRead \/ TestCursor \/ IndexValue \/ LoadCursor \/ StoreAndReturn

SpecConcurrent == InitConcurrent /\ [][NextConcurrent]_vars

\* ---------------------------------------------------------------------------
\* Calls with a context the caller chooses.
\* ---------------------------------------------------------------------------

\* The readers of T under a combinator: one that honours its context and one
\* that ignores it.
CtxValueSources ==
    {CtxReader(vs, Zero) : vs \in SeqsUpTo(Values, MaxList)}
    \cup {NewReaderFrom(vs, Zero) : vs \in SeqsUpTo(Values, MaxList)}

\* The lists of the results rs.
ListsOf(rs) == [k \in 1..Len(rs) |-> rs[k].val]

\* The readers of []T under NewReaderWithUnbatching.
CtxListSources ==
    {CtxReader(ListsOf(NumberedLists(sh, 0)), NilList) :
         sh \in SeqsUpTo((0..MaxList) \X {Nil}, MaxBatches)}

CtxReaders ==
    {NewReaderWithBatching(r, n) : r \in CtxValueSources, n \in Sizes}
    \cup {NewReaderWithUnbatching(r) : r \in CtxListSources}
    \cup {NewReaderWithFilterFn(r, f) :
              r \in CtxValueSources, f \in Predicates}
    \cup {NewReaderWithMapperFn(r, f) : r \in CtxValueSources, f \in Mappers}

CtxWriters ==
    {NewWriterWithBatching(CtxWriter, n) : n \in Sizes}
    \cup {NewWriterWithUnbatching(CtxWriter)}
    \cup {NewWriterWithFilterFn(CtxWriter, f) : f \in Predicates}

\* The caller calls rd.Read(ctx) with a context of its choice.
CallReadCtx ==
    /\ rd.kind # "nil"
    /\ Len(out) < MaxCalls
    /\ \E ctx \in Contexts :
          LET x == Read(rd, ctx)
          IN  /\ rd' = x.rd
              /\ out' = Append(out, Res(x.val, x.err))
              /\ pulled' = Append(pulled, x.log)
              /\ ctxs' = Append(ctxs, ctx)
    /\ UNCHANGED <<wr, win, wout, pushed, obj, cout, inflight>>

\* What the caller hands to the writer w: a value, or a list of the
\* successive integers.
WriteInputs(w) ==
    IF TakesLists(w)
    THEN {[j \in 1..n |-> Len(Concat(win)) + j] : n \in 0..MaxList}
    ELSE Values

\* The caller calls wr.Write(ctx, v) with a context of its choice.
CallWriteCtx ==
    /\ wr.kind # "nil"
    /\ Len(win) < MaxCalls
    /\ \E ctx \in Contexts, v \in WriteInputs(wr) :
          LET x == Write(wr, v, ctx)
          IN  /\ wr' = x.wr
              /\ win' = Append(win, v)
              /\ wout' = Append(wout, x.err)
              /\ pushed' = Append(pushed, x.log)
              /\ ctxs' = Append(ctxs, ctx)
    /\ UNCHANGED <<rd, out, pulled, obj, cout, inflight>>

InitCtx ==
    /\ \/ rd \in CtxReaders /\ wr = NilWriter
       \/ rd = NilReader /\ wr \in CtxWriters
    /\ out = <<>>
    /\ pulled = <<>>
    /\ win = <<>>
    /\ wout = <<>>
    /\ pushed = <<>>
    /\ obj = NoObj
    /\ cout = <<>>
    /\ ctxs = <<>>
    /\ inflight = NoCalls

NextCtx == CallReadCtx \/ CallWriteCtx

SpecCtx == InitCtx /\ [][NextCtx]_vars

\* ---------------------------------------------------------------------------
\* A batching reader over a reader that has values again after a failure.
\* ---------------------------------------------------------------------------

\* NewReaderWithBatching over a NewReadWriterFrom the caller keeps, and over
\* caller-supplied readers that return values after they failed.
StickyReaders ==
    {NewReaderWithBatching(ReadWriterAsReader(NewReadWriterFrom(vs)), n) :
         vs \in SeqsUpTo(Values, MaxScript), n \in Sizes}
    \cup {NewReaderWithBatching(ScriptReader(sc, Zero), n) :
              sc \in SeqsUpTo(ValueResults, MaxScript), n \in Sizes}

\* The caller calls Write(ctx, v) on the ReadWriter that rd wraps; the values
\* it writes follow each other in Values.
CallWriteUnderlying ==
    /\ rd.kind = "batching"
    /\ rd.r.kind = "readwriter"
    /\ Len(win) < MaxScript
    /\ LET v == Len(win) % (MaxVal + 1)
       IN  /\ rd' = [rd EXCEPT !.r.impl = AfterWrite(@, v)]
           /\ win' = Append(win, v)
           /\ wout' = Append(wout, ReadWriteCloserImplWrite(rd.r.impl, v))
    /\ UNCHANGED <<out, pulled, wr, pushed, obj, cout, ctxs, inflight>>

InitSticky ==
    /\ rd \in StickyReaders
    /\ out = <<>>
    /\ pulled = <<>>
    /\ wr = NilWriter
    /\ win = <<>>
    /\ wout = <<>>
    /\ pushed = <<>>
    /\ obj = NoObj
    /\ cout = <<>>
    /\ ctxs = <<>>
    /\ inflight = NoCalls

NextSticky == CallRead \/ CallWriteUnderlying

SpecSticky == InitSticky /\ [][NextSticky]_vars

\* ---------------------------------------------------------------------------
\* One Read of a pipeline, one step at a time.
\* ---------------------------------------------------------------------------

\* In this part inflight.call holds the Read calls in progress, the caller's
\* first and the one that is running last; inflight.ret holds the result of
\* the call that returned last until the call that made it takes it.

\* ReaderImpl[T]{Impl: fn} for a caller-supplied fn that returns v and a nil
\* error at every call.
RepeatReader(v) == [kind |-> "repeat", v |-> v]

\* The reader at depth d of the pipeline r; r itself is at depth 1.
RECURSIVE NodeAt(_, _)
NodeAt(r, d) == IF d = 1 THEN r ELSE NodeAt(r.r, d - 1)

\* The pipeline r with the reader at depth d replaced by n.
RECURSIVE SetNode(_, _, _)
SetNode(r, d, n) ==
    IF d = 1 THEN n ELSE [r EXCEPT !.r = SetNode(r.r, d - 1, n)]

\* A Read call in progress: where it is and, for a batching Read, the loop
\* counter i, the slice s and the number of calls made to the wrapped reader.
Frame(pc) == [pc |-> pc, i |-> 0, s |-> <<>>, pulls |-> 0]

Depth == Len(inflight.call)

\* The call that is running, and the reader it is a call of.
Running == inflight.call[Depth]

Callee == NodeAt(rd, Depth)

\* The running call returns val and err; n is its reader after the call.
Return(val, err, n) ==
    /\ rd' = SetNode(rd, Depth, n)
    /\ IF Depth = 1
       THEN /\ out' = Append(out, Res(val, err))
            /\ pulled' = Append(pulled, <<>>)
            /\ inflight' = [inflight EXCEPT !.call = <<>>, !.ret = <<>>]
       ELSE /\ inflight' =
                  [inflight EXCEPT
                      !.call = [SubSeq(@, 1, Depth - 1) EXCEPT
                                   ![Depth - 1].pc = "got"],
                      !.ret = <<Res(val, err)>>]
            /\ UNCHANGED <<out, pulled>>

\* The running call, continuing as fr, calls r.Read(ctx).
CallWrapped(fr) ==
    /\ inflight' =
          [inflight EXCEPT
              !.call = Append([@ EXCEPT ![Depth] =
                                  [fr EXCEPT
                                      !.pc = "wait",
                                      !.pulls = IF Callee.kind = "batching"
                                                THEN @ + 1
                                                ELSE @]],
                              Frame("enter")),
              !.ret = <<>>]
    /\ UNCHANGED <<rd, out, pulled>>

\* The caller calls rd.Read(ctx).
EnterRead ==
    /\ Depth = 0
    /\ Len(out) < MaxCalls
    /\ inflight' = [inflight EXCEPT !.call = <<Frame("enter")>>]
    /\ UNCHANGED <<rd, out, pulled, wr, win, wout, pushed, obj, cout, ctxs>>

\* The closures of NewReaderFrom and of the caller's reader run in one step.
StepLeaf ==
    /\ Depth > 0
    /\ Callee.kind \in {"from", "repeat"}
    /\ IF Callee.kind = "from"
       THEN LET x == NewReaderFromImpl(Callee, Background)
            IN  Return(x.val, x.err, x.rd)
       ELSE Return(Callee.v, Nil, Callee)
    /\ UNCHANGED <<wr, win, wout, pushed, obj, cout, ctxs>>

\* for i := 0; i < size; i++ { v, errCache = r.Read(ctx); ... }
StepBatching ==
    /\ Depth > 0
    /\ Callee.kind = "batching"
    /\ CASE Running.pc = "enter" ->
                IF Callee.errCache # Nil
                THEN Return(<<>>, Callee.errCache, Callee)
                ELSE /\ inflight' = [inflight EXCEPT !.call[Depth].pc = "loop"]
                     /\ UNCHANGED <<rd, out, pulled>>
         [] Running.pc = "loop" ->
                IF Running.i < Callee.size
                THEN CallWrapped(Running)
                ELSE Return(Running.s, Nil, Callee)
         [] Running.pc = "got" ->
                LET res == inflight.ret[1]
                IN  IF res.err # Nil
                    THEN Return(Running.s,
                                IF Len(Running.s) = 0 THEN res.err ELSE Nil,
                                [Callee EXCEPT !.errCache = res.err])
                    ELSE /\ inflight' =
                               [inflight EXCEPT
                                   !.call[Depth].pc = "loop",
                                   !.call[Depth].i = @ + 1,
                                   !.call[Depth].s = Append(@, res.val),
                                   !.ret = <<>>]
                         /\ UNCHANGED <<rd, out, pulled>>
    /\ UNCHANGED <<wr, win, wout, pushed, obj, cout, ctxs>>

\* The closure of NewReaderWithUnbatching.
StepUnbatching ==
    /\ Depth > 0
    /\ Callee.kind = "unbatching"
    /\ CASE Running.pc = "enter" ->
                IF Len(Callee.buf) > 0
                THEN Return(Head(Callee.buf), Nil,
                            [Callee EXCEPT !.buf = Tail(@)])
                ELSE IF Callee.errCache # Nil
                THEN Return(Zero, Callee.errCache, Callee)
                ELSE CallWrapped(Running)
         [] Running.pc = "got" ->
                LET buf == inflight.ret[1].val
                    err == inflight.ret[1].err
                IN  CASE Len(buf) = 0 /\ err # Nil ->
                             Return(Zero, err, [Callee EXCEPT !.buf = buf])
                      [] Len(buf) = 0 /\ err = Nil ->
                             Return(Zero, EOF, [Callee EXCEPT !.buf = buf])
                      [] Len(buf) # 0 /\ err # Nil ->
                             Return(Head(buf), Nil,
                                    [Callee EXCEPT !.buf = Tail(buf),
                                                   !.errCache = err])
                      [] Len(buf) # 0 /\ err = Nil ->
                             Return(Head(buf), Nil,
                                    [Callee EXCEPT !.buf = Tail(buf)])
    /\ UNCHANGED <<wr, win, wout, pushed, obj, cout, ctxs>>

\* FilterContinues that does not test the error.
FilterContinuesOnErr(res, f) == res.val \notin f.fn

\* for ...; err == nil; ... { if f(val) { return } } : the loop goes round
\* after the result res when the pull succeeded and f rejects the value.
FilterContinues(res, f) == res.err = Nil /\ res.val \notin f.fn

\* The closure of NewReaderWithFilterFn.
StepFilter ==
    /\ Depth > 0
    /\ Callee.kind = "filter"
    /\ CASE Running.pc = "enter" -> CallWrapped(Running)
         [] Running.pc = "got" ->
                IF FilterContinues(inflight.ret[1], Callee.f)
                THEN CallWrapped(Running)
                ELSE Return(inflight.ret[1].val, inflight.ret[1].err, Callee)
    /\ UNCHANGED <<wr, win, wout, pushed, obj, cout, ctxs>>

\* The closure of NewReaderWithMapperFn.
StepMapper ==
    /\ Depth > 0
    /\ Callee.kind = "mapper"
    /\ CASE Running.pc = "enter" -> CallWrapped(Running)
         [] Running.pc = "got" ->
                IF inflight.ret[1].err # Nil
                THEN Return(Zero, inflight.ret[1].err, Callee)
                ELSE Return(Callee.f.fn[inflight.ret[1].val], Nil,
                            [Callee EXCEPT !.calls = @ + 1])
    /\ UNCHANGED <<wr, win, wout, pushed, obj, cout, ctxs>>

\* NewReaderFrom over a finite list, and a reader that never fails.
StepSources ==
    {NewReaderFrom(vs, Zero) : vs \in SeqsUpTo(Values, MaxScript)}

\* The mapper of the pipelines: it keeps no value.
Swap == Fn([v \in Values |-> MaxVal - v])

\* Compositions of the batching, unbatching, filter and map readers.
Pipelines ==
    {NewReaderWithBatching(r, n) : r \in StepSources, n \in Sizes}
    \cup {NewReaderWithFilterFn(r, f) : r \in StepSources, f \in Predicates}
    \cup {NewReaderWithMapperFn(r, Swap) : r \in StepSources}
    \cup {NewReaderWithUnbatching(NewReaderWithBatching(r, n)) :
              r \in StepSources, n \in Sizes}
    \cup {NewReaderWithBatching(NewReaderWithFilterFn(r, f), n) :
              r \in StepSources, f \in Predicates, n \in Sizes}
    \cup {NewReaderWithFilterFn(
              NewReaderWithUnbatching(NewReaderWithBatching(r, n)), f) :
              r \in StepSources, f \in Predicates, n \in Sizes}
    \cup {NewReaderWithMapperFn(NewReaderWithFilterFn(r, f), Swap) :
              r \in StepSources, f \in Predicates}
    \cup {NewReaderWithFilterFn(RepeatReader(v), f) :
              v \in Values, f \in Predicates}

InitSteps ==
    /\ rd \in Pipelines
    /\ out = <<>>
    /\ pulled = <<>>
    /\ wr = NilWriter
    /\ win = <<>>
    /\ wout = <<>>
    /\ pushed = <<>>
    /\ obj = NoObj
    /\ cout = <<>>
    /\ ctxs = <<>>
    /\ inflight = [call |-> <<>>, overlapped |-> FALSE, ret |-> <<>>]

NextSteps ==
    \/ EnterRead
    \/ StepLeaf
    \/ StepBatching
    \/ StepUnbatching
    \/ StepFilter
    \/ StepMapper

\* A goroutine that is inside Read keeps running.
SpecSteps == InitSteps /\ [][NextSteps]_vars /\ WF_vars(NextSteps)

\* ---------------------------------------------------------------------------
\* Properties.
\* ---------------------------------------------------------------------------

\* The k-th result of a reader in its initial state that is only ever read.
StreamAt(r, k) ==
    IF r.kind = "from"
    THEN IF k <= Len(r.vs) THEN Res(r.vs[k], Nil) ELSE Res(r.zero, EOF)
    ELSE IF k <= Len(r.script) THEN r.script[k] ELSE Res(r.zero, EOF)

\* The values of a sequence of results.
Vals(rs) == [k \in 1..Len(rs) |-> rs[k].val]

\* The Read calls so far that returned a failure.
FailedCalls == {k \in 1..Len(out) : out[k].err # Nil}

CeilDiv(n, d) == (n + d - 1) \div d

IsRoundTrip ==
    /\ rd.kind = "unbatching"
    /\ rd.r.kind = "batching"
    /\ rd.r.r.kind = "from"

\* C1: reading Unbatching(Batching(NewReaderFrom(seq), S)) returns the
\* elements of seq in order, each with a nil error, and after them the zero
\* value with io.EOF.
BatchUnbatchRoundTrip ==
    IsRoundTrip =>
        \A k \in 1..Len(out) :
            out[k] = IF k <= Len(rd.r.r.vs)
                     THEN Res(rd.r.r.vs[k], Nil)
                     ELSE Res(Zero, EOF)

\* A three-element sequence batched by two has been read to its end and
\* once more.
BatchUnbatchRoundTripWitness ==
    /\ IsRoundTrip
    /\ Len(rd.r.r.vs) = 3
    /\ rd.r.size = 2
    /\ Len(out) >= 5
    /\ out[3].err = Nil
    /\ out[5].err = EOF

\* C2: batching a NewReaderFrom of N values by S returns ceil(N/S) non-empty
\* lists with nil error, all but possibly the last of S elements, whose
\* concatenation is the source sequence, and then the empty list with io.EOF.
BatchingGrouping ==
    (rd.kind = "batching" /\ rd.r.kind = "from") =>
        LET vs == rd.r.vs
            N  == Len(vs)
            S  == rd.size
            C  == CeilDiv(N, S)
            nonEmpty == {k \in 1..Len(out) : out[k].val # <<>>}
        IN  /\ \A k \in 1..Len(out) :
                  IF k <= C
                  THEN /\ out[k].err = Nil
                       /\ out[k].val # <<>>
                       /\ k < C => Len(out[k].val) = S
                       /\ Len(out[k].val) <= S
                  ELSE out[k] = Res(<<>>, EOF)
            /\ nonEmpty = 1..Min(C, Len(out))
            /\ Concat(Vals(out)) = SubSeq(vs, 1, Min(N, Len(out) * S))
            /\ Len(out) > C => Cardinality(nonEmpty) = C

\* Three values batched by two: a full list, a partial list, then the end.
BatchingGroupingWitness ==
    /\ rd.kind = "batching"
    /\ rd.r.kind = "from"
    /\ Len(rd.r.vs) = 3
    /\ rd.size = 2
    /\ Len(out) >= 3
    /\ Len(out[1].val) = 2
    /\ Len(out[2].val) = 1
    /\ out[3].err = EOF

\* C3: when the wrapped reader fails during a batching Read, the failure is
\* returned with an empty list if nothing was collected in that Read;
\* otherwise the partial list is returned with a nil error, once, and the
\* next Read returns the empty list with that failure.
BatchingFailurePolicy ==
    rd.kind = "batching" =>
        \A k \in 1..Len(out) :
            (pulled[k] # <<>> /\ Last(pulled[k]).err # Nil) =>
                LET p == pulled[k]
                    e == Last(p).err
                IN  /\ Len(p) = 1 => out[k] = Res(<<>>, e)
                    /\ Len(p) > 1 =>
                         /\ out[k] = Res(Vals(SubSeq(p, 1, Len(p) - 1)), Nil)
                         /\ k < Len(out) => out[k + 1] = Res(<<>>, e)
                         /\ \A j \in (k + 1)..Len(out) : out[j].val = <<>>

\* A Read collected an element, then met a failure that is not io.EOF, and
\* the caller has read again.
BatchingFailurePolicyWitness ==
    /\ rd.kind = "batching"
    /\ \E k \in 1..Len(out) :
          /\ Len(pulled[k]) > 1
          /\ Last(pulled[k]).err = ErrCustom
          /\ k < Len(out)

\* The lists the unbatching reader fetched in its first n Read calls, joined.
Fetched(n) == Concat([k \in 1..n |-> Concat(Vals(pulled[k]))])

\* C4: the values an unbatching reader returns before its first failure are,
\* with those still in its queue, the concatenation of the lists it fetched,
\* and none is left when the first failure is returned; the elements of a
\* non-empty list that came with a failure are all returned before it.
UnbatchingLosesNothing ==
    rd.kind = "unbatching" =>
        LET ff == IF FailedCalls = {} THEN Len(out) + 1
                  ELSE CHOOSE k \in FailedCalls :
                           \A j \in FailedCalls : k <= j
            returned == Vals(SubSeq(out, 1, ff - 1))
        IN  /\ IF FailedCalls = {}
               THEN returned \o rd.buf = Fetched(Len(out))
               ELSE returned = Fetched(ff)
            /\ \A k \in 1..Len(out) :
                  (/\ pulled[k] # <<>>
                   /\ pulled[k][1].val # <<>>
                   /\ pulled[k][1].err # Nil) =>
                      LET l == pulled[k][1].val
                      IN  \A j \in 0..Len(l) :
                              k + j <= Len(out) =>
                                  out[k + j] = IF j < Len(l)
                                               THEN Res(l[j + 1], Nil)
                                               ELSE Res(Zero, pulled[k][1].err)

\* A two-element list came with a failure, and both elements and then the
\* failure have been returned.
UnbatchingLosesNothingWitness ==
    /\ rd.kind = "unbatching"
    /\ \E k \in 1..Len(out) :
          /\ pulled[k] # <<>>
          /\ Len(pulled[k][1].val) = 2
          /\ pulled[k][1].err = ErrCustom
          /\ k + 2 <= Len(out)
          /\ out[k + 2].err = ErrCustom

\* The k-th Read call pulled an empty list from the wrapped reader.
PulledEmptyList(k) == pulled[k] # <<>> /\ pulled[k][1].val = <<>>

\* C5 as stated: once an unbatching reader has pulled an empty list, every
\* later Read returns a failure, whatever the wrapped reader returns later.
UnbatchingExhaustedAbsorbing ==
    rd.kind = "unbatching" =>
        \A k \in 1..Len(out) :
            PulledEmptyList(k) => \A j \in k..Len(out) : out[j].err # Nil

\* C5: a Read of an unbatching reader that pulls an empty list returns the
\* zero value with the failure that came with the list, or io.EOF if none
\* came; nothing is cached, so the next Read pulls the wrapped reader again,
\* and the Reads return failures for as long as the pulled lists are empty.
UnbatchingEmptyListFails ==
    rd.kind = "unbatching" =>
        \A k \in 1..Len(out) :
            PulledEmptyList(k) =>
                /\ out[k] = Res(Zero, IF pulled[k][1].err = Nil
                                      THEN EOF
                                      ELSE pulled[k][1].err)
                /\ k < Len(out) => pulled[k + 1] # <<>>
                /\ \A j \in k..Len(out) :
                      (\A m \in k..j : PulledEmptyList(m)) => out[j].err # Nil

\* After a Read that pulled an empty list, a later Read pulled again and
\* returned a value.
UnbatchingEmptyListFailsWitness ==
    /\ rd.kind = "unbatching"
    /\ \E k \in 1..Len(out) :
          /\ PulledEmptyList(k)
          /\ k < Len(out)
          /\ pulled[k + 1] # <<>>
          /\ out[k + 1].err = Nil

\* C6 as stated: a failure the wrapped reader returned to a batching or an
\* unbatching reader is returned by the same Read call or by the next one.
FailureSameOrNextCall ==
    rd.kind \in {"batching", "unbatching"} =>
        \A k \in 1..Len(out) :
            \A j \in 1..Len(pulled[k]) :
                pulled[k][j].err # Nil =>
                    \/ out[k].err = pulled[k][j].err
                    \/ k < Len(out) => out[k + 1].err = pulled[k][j].err

\* C6: a failure of the wrapped reader ends the pulls of that Read call.  A
\* batching reader returns it from the same call if it collected nothing and
\* else from the next call; an unbatching reader returns it from the same
\* call if the list that came with it is empty and else from the first call
\* after the L elements of that list have been returned, L calls later, without
\* pulling in between.
FailurePropagation ==
    /\ rd.kind = "batching" =>
          \A k \in 1..Len(out) :
              \A j \in 1..Len(pulled[k]) :
                  pulled[k][j].err # Nil =>
                      /\ j = Len(pulled[k])
                      /\ IF j = 1
                         THEN out[k].err = pulled[k][j].err
                         ELSE /\ out[k].err = Nil
                              /\ k < Len(out) =>
                                    /\ out[k + 1].err = pulled[k][j].err
                                    /\ pulled[k + 1] = <<>>
    /\ rd.kind = "unbatching" =>
          \A k \in 1..Len(out) :
              /\ Len(pulled[k]) <= 1
              /\ (pulled[k] # <<>> /\ pulled[k][1].err # Nil) =>
                    LET L == Len(pulled[k][1].val)
                    IN  /\ k + L <= Len(out) =>
                              out[k + L].err = pulled[k][1].err
                        /\ \A m \in k..Min(k + L - 1, Len(out)) :
                              out[m].err = Nil
                        /\ \A m \in (k + 1)..Min(k + L, Len(out)) :
                              pulled[m] = <<>>

\* An unbatching reader pulled a two-element list with a failure and
\* returned the failure from its third Read counted from that pull.
FailurePropagationWitness ==
    /\ rd.kind = "unbatching"
    /\ \E k \in 1..Len(out) :
          /\ pulled[k] # <<>>
          /\ Len(pulled[k][1].val) = 2
          /\ pulled[k][1].err = ErrCustom
          /\ k + 2 <= Len(out)
          /\ out[k + 1].err = Nil
          /\ out[k + 2].err = ErrCustom

\* C7: the k-th Read of NewReaderFrom(v1..vn) returns vk with a nil error for
\* k <= n and the zero value with io.EOF afterwards; the cursor counts the
\* successful Reads and never exceeds n.
SequenceExhaustion ==
    rd.kind = "from" =>
        /\ \A k \in 1..Len(out) :
              out[k] = IF k <= Len(rd.vs)
                       THEN Res(rd.vs[k], Nil)
                       ELSE Res(Zero, EOF)
        /\ rd.i = Len(out) - Cardinality(FailedCalls)
        /\ rd.i <= Len(rd.vs)

\* Two values have been read, and io.EOF has been returned twice.
SequenceExhaustionWitness ==
    /\ rd.kind = "from"
    /\ Len(rd.vs) = 2
    /\ Len(out) >= 4
    /\ out[2].err = Nil
    /\ out[4].err = EOF

\* The wrapped reader's result x passes a filter with predicate f.
Passes(x, f) == x.err # Nil \/ x.val \in f.fn

RECURSIVE Select(_, _)
Select(rs, f) ==
    IF rs = <<>> THEN <<>>
    ELSE IF Passes(Head(rs), f)
         THEN <<Head(rs)>> \o Select(Tail(rs), f)
         ELSE Select(Tail(rs), f)

\* C8: the Reads of a filtering reader return, in order, the values of the
\* wrapped reader that satisfy the predicate, and its failures; no value the
\* predicate rejects is returned.
FilterCorrectness ==
    rd.kind = "filter" =>
        LET all == Concat(pulled)
        IN  /\ \A k \in 1..Len(all) : all[k] = StreamAt(rd.r, k)
            /\ out = Select(all, rd.f)
            /\ \A k \in 1..Len(out) :
                  /\ pulled[k] # <<>>
                  /\ out[k] = Last(pulled[k])
                  /\ \A j \in 1..(Len(pulled[k]) - 1) :
                        ~Passes(pulled[k][j], rd.f)
                  /\ out[k].err = Nil => out[k].val \in rd.f.fn
            /\ rd.r.kind = "from" =>
                  LET sel == SelectSeq(rd.r.vs, LAMBDA v : v \in rd.f.fn)
                  IN  \A k \in 1..Len(out) :
                          out[k] = IF k <= Len(sel)
                                   THEN Res(sel[k], Nil)
                                   ELSE Res(Zero, EOF)

\* A filter over NewReaderFrom skipped a rejected value, returned an
\* accepted one, and reached the end.
FilterCorrectnessWitness ==
    /\ rd.kind = "filter"
    /\ rd.r.kind = "from"
    /\ \E k \in 1..Len(out) :
          /\ Len(pulled[k]) >= 2
          /\ out[k].err = Nil
          /\ k < Len(out)
          /\ out[Len(out)].err = EOF

\* C9: a Read of a mapping reader pulls one result from the wrapped reader;
\* it returns f of the value with a nil error, or the failure with the zero
\* value without invoking f, so f has been invoked once per successful pull.
MapPurity ==
    rd.kind = "mapper" =>
        /\ \A k \in 1..Len(out) :
              /\ Len(pulled[k]) = 1
              /\ pulled[k][1] = StreamAt(rd.r, k)
              /\ out[k] = IF pulled[k][1].err = Nil
                          THEN Res(rd.f.fn[pulled[k][1].val], Nil)
                          ELSE Res(Zero, pulled[k][1].err)
        /\ rd.calls = Cardinality({k \in 1..Len(out) : pulled[k][1].err = Nil})

\* A mapping reader returned a mapped value that differs from the value
\* pulled, and then a failure.
MapPurityWitness ==
    /\ rd.kind = "mapper"
    /\ Len(out) >= 2
    /\ out[1].err = Nil
    /\ out[1].val # pulled[1][1].val
    /\ out[2].err # Nil
    /\ rd.calls = 1

\* Every call of the writer w returns nil.
AlwaysSucceeds(w) ==
    w.kind = "script" /\ \A k \in 1..Len(w.script) : w.script[k] = Nil

\* C10: over a writer that always succeeds, a batching writer of size S has,
\* after k Writes, called it floor(k/S) times, with the successive runs of S
\* written values, and only during the Writes whose ordinal is a multiple of S.
WriterBatchingFlushBoundary ==
    (wr.kind = "batching" /\ AlwaysSucceeds(wr.w)) =>
        LET S == wr.size
            k == Len(win)
        IN  /\ wr.w.s = [j \in 1..(k \div S) |->
                            SubSeq(win, (j - 1) * S + 1, j * S)]
            /\ \A n \in 1..k :
                  /\ wout[n] = Nil
                  /\ pushed[n] = IF n % S = 0
                                 THEN <<Res(SubSeq(win, n - S + 1, n), Nil)>>
                                 ELSE <<>>
            /\ Concat(wr.w.s) = SubSeq(win, 1, S * (k \div S))

\* Five values written with size two: two flushes, one value held back.
WriterBatchingFlushBoundaryWitness ==
    /\ wr.kind = "batching"
    /\ AlwaysSucceeds(wr.w)
    /\ wr.size = 2
    /\ Len(win) = 5
    /\ Len(wr.w.s) = 2
    /\ pushed[3] = <<>>
    /\ pushed[4] # <<>>

\* --- Batching with a size that is not positive ------------------------------

\* C11: a batching writer built with a size that is not positive exists, holds
\* the values written to it, and calls the writer it wraps only during every
\* eighth Write, with the list of the eight values written since the last call.
WriterBatchingDefaultSize ==
    /\ wr.kind # "panic"
    /\ (wr.kind = "batching" /\ wr.size <= 0) =>
           \A n \in 1..Len(win) :
              pushed[n] =
                  IF n % DefaultSize = 0
                  THEN <<Res(SubSeq(win, n - DefaultSize + 1, n), wout[n])>>
                  ELSE <<>>

\* The reader r as it was when the pipeline was built.
Rewound(r) ==
    IF r.kind = "from" THEN [r EXCEPT !.i = 0] ELSE [r EXCEPT !.pos = 0]

\* The results of the first n Reads of the reader r.
RECURSIVE ReadAll(_, _)
ReadAll(r, n) ==
    IF n = 0
    THEN <<>>
    ELSE LET x == Read(r, Background)
         IN  <<Res(x.val, x.err)>> \o ReadAll(x.rd, n - 1)

\* C12: the Reads of a batching reader built with a size that is not positive
\* return what the Reads of a batching reader of size 8 over the same wrapped
\* reader return.
ReaderBatchingDefaultSize ==
    (rd.kind = "batching" /\ rd.arg <= 0) =>
        out = ReadAll(NewReaderWithBatching(Rewound(rd.r), DefaultSize),
                      Len(out))

\* Nine values read with size 0: a list of eight, a list of one, io.EOF.
ReaderBatchingDefaultSizeWitness ==
    /\ rd.kind = "batching"
    /\ rd.arg = 0
    /\ rd.r.kind = "from"
    /\ rd.r.vs = LongValues
    /\ Len(out) = 3
    /\ out[1] = Res(SubSeq(LongValues, 1, DefaultSize), Nil)
    /\ out[2] = Res(<<DefaultSize + 1>>, Nil)
    /\ out[3] = Res(NilList, EOF)

\* --- Unbatching and filtering writers ---------------------------------------

\* What the g-th call of the scripted writer w returns.
ScriptedErr(w, g) == IF g <= Len(w.script) THEN w.script[g] ELSE Nil

\* C13: a Write of a list to an unbatching writer writes the elements of the
\* list to the wrapped writer one at a time and in order; at the first element
\* whose write fails it stops and returns that failure, having written none of
\* the elements after it; otherwise it returns nil after the last element.
UnbatchingWriterElementwise ==
    wr.kind = "unbatching" =>
        /\ wr.w.s = Vals(Concat(pushed))
        /\ \A n \in 1..Len(win) :
              LET vs == win[n]
                  log == pushed[n]
                  m == Len(log)
                  before == Len(Concat(SubSeq(pushed, 1, n - 1)))
              IN  /\ m <= Len(vs)
                  /\ \A j \in 1..m :
                        /\ log[j].val = vs[j]
                        /\ log[j].err = ScriptedErr(wr.w, before + j)
                        /\ j < m => log[j].err = Nil
                  /\ IF m > 0 /\ log[m].err # Nil
                     THEN wout[n] = log[m].err
                     ELSE m = Len(vs) /\ wout[n] = Nil

\* A list of two whose first element fails, then a list of two written whole.
UnbatchingWriterElementwiseWitness ==
    /\ wr.kind = "unbatching"
    /\ Len(win) = 2
    /\ Len(win[1]) = 2
    /\ Len(pushed[1]) = 1
    /\ wout[1] = ErrCustom
    /\ Len(win[2]) = 2
    /\ Len(pushed[2]) = 2
    /\ wout[2] = Nil
    /\ wr.w.s = <<1, 3, 4>>

\* C14: a Write of v to a filtering writer with predicate f returns nil
\* without calling the wrapped writer when f rejects v, and calls the wrapped
\* writer once with v and returns its result when f accepts v; the wrapped
\* writer receives, in order, the written values that f accepts.
FilterWriterCorrectness ==
    wr.kind = "filter" =>
        /\ wr.w.s = SelectSeq(win, LAMBDA v : v \in wr.f.fn)
        /\ \A n \in 1..Len(win) :
              IF win[n] \in wr.f.fn
              THEN /\ pushed[n] = <<Res(win[n], wout[n])>>
                   /\ wout[n] = ScriptedErr(
                          wr.w, Len(Concat(SubSeq(pushed, 1, n))))
              ELSE /\ pushed[n] = <<>>
                   /\ wout[n] = Nil

\* A rejected value, an accepted value whose write fails, an accepted value
\* whose write succeeds.
FilterWriterCorrectnessWitness ==
    /\ wr.kind = "filter"
    /\ wr.f.fn = {1}
    /\ win = <<0, 1, 1>>
    /\ wout = <<Nil, ErrCustom, Nil>>
    /\ wr.w.s = <<1, 1>>

\* --- Values to bytes and back -----------------------------------------------

IsByteRoundTrip ==
    rd.kind = "frombytes" /\ rd.r.kind = "fromvalues"

\* The byte Reads made so far, in order.
ByteReads == Concat(pulled)

\* C15: the Reads of NewReaderFromBytes over NewReaderFromValues over
\* NewReaderFrom(seq) return the values of seq in order with nil errors and
\* then the zero value with io.EOF, whatever the size of the slices the
\* bytes are read with.
ByteRoundTripLossless ==
    (IsByteRoundTrip /\ rd.r.r.kind = "from") =>
        \A k \in 1..Len(out) : out[k] = StreamAt(Rewound(rd.r.r), k)

\* C16: a byte Read of NewReaderFromValues made while its buffer holds bytes
\* returns bytes of the buffer and does not pull the wrapped reader; only a
\* byte Read made with an empty buffer pulls the wrapped reader.
BridgeDrainsBeforePulling ==
    IsByteRoundTrip =>
        \A j \in 1..Len(ByteReads) :
            ByteReads[j].held > 0 =>
                /\ ByteReads[j].pulls = <<>>
                /\ ByteReads[j].val # <<>>

\* The bytes of the values the wrapped reader has returned so far.
RECURSIVE EncodeAll(_)
EncodeAll(vs) ==
    IF vs = <<>> THEN <<>> ELSE Encode(Head(vs)) \o EncodeAll(Tail(vs))

\* C17: a byte Read of NewReaderFromValues returns a failure of the wrapped
\* reader only when its buffer is empty, so that every byte of every value
\* pulled before the failure has been returned by then.
BridgeFailsOnlyWhenDrained ==
    IsByteRoundTrip =>
        \A j \in 1..Len(ByteReads) :
            ByteReads[j].err # Nil =>
                /\ ByteReads[j].held = 0
                /\ LET before == SubSeq(ByteReads, 1, j - 1)
                   IN  Concat(Vals(before)) =
                           EncodeAll(Vals(Concat(
                               [i \in 1..(j - 1) |-> before[i].pulls])))

\* --- Impl structs, and constructors given no reader or writer ----------------

\* C18: every Read of a ReaderImpl, ReadCloserImpl, ReadWriterImpl or
\* ReadWriteCloserImpl with no read function returns the zero value and
\* io.EOF; every Write of a WriterImpl, WriteCloserImpl, ReadWriterImpl or
\* ReadWriteCloserImpl with no write function returns io.ErrClosedPipe; every
\* Close of a struct with no close function returns nil.
EmptyCapabilityDefaults ==
    /\ ((HasRead(obj) /\ obj.ImplR.isNil) \/ rd = EmptyReaderImpl(Zero)) =>
           \A k \in 1..Len(out) : out[k] = Res(Zero, EOF)
    /\ ((HasWrite(obj) /\ obj.ImplW.isNil) \/ wr = EmptyWriterImpl) =>
           \A k \in 1..Len(wout) : wout[k] = ErrClosedPipe
    /\ (HasClose(obj) /\ obj.ImplC.isNil) =>
           \A k \in 1..Len(cout) : cout[k] = Nil

\* A ReadWriterImpl{} read and written twice.
EmptyCapabilityDefaultsWitness ==
    /\ obj = ReadWriterImpl(NoFn, NoFn)
    /\ out = <<Res(Zero, EOF), Res(Zero, EOF)>>
    /\ wout = <<ErrClosedPipe, ErrClosedPipe>>

\* C19: what NewReaderWithBatching, NewReaderWithUnbatching,
\* NewReaderWithFilterFn, NewReaderWithMapperFn and NewReaderFromBytes return
\* for a nil reader is a reader, and each of its Reads returns the zero value
\* (the nil list for batching) and io.EOF.
AbsentReaderIsEmpty ==
    (obj = NoObj /\ wr = NilWriter) =>
        /\ rd \in {EmptyReaderImpl(Zero), EmptyListReaderImpl}
        /\ \A k \in 1..Len(out) : out[k] = Res(rd.zero, EOF)
        /\ \A k \in 1..Len(pulled) : pulled[k] = <<>>

\* The batching reader built on a nil reader, read three times.
AbsentReaderIsEmptyWitness ==
    /\ obj = NoObj
    /\ rd = NewReaderWithBatching(NilReader, 0)
    /\ out = <<Res(NilList, EOF), Res(NilList, EOF), Res(NilList, EOF)>>
    /\ pulled = <<<<>>, <<>>, <<>>>>

NilUnbatchingWrites ==
    IF obj = NoObj /\ wr = NewWriterWithUnbatching(NilWriter)
    THEN {k \in 1..Len(win) : win[k] # <<>>}
    ELSE {}

BatchingNeverEmptyWithoutFailure ==
    rd.kind = "batching" =>
        \A k \in 1..Len(out) :
            /\ Len(out[k].val) <= rd.size
            /\ out[k].err = Nil => Len(out[k].val) >= 1
            /\ Len(out[k].val) = 0 => out[k].err # Nil

\* A list shorter than the size with a nil error, then the empty list with
\* the failure that cut it short.
BatchingNeverEmptyWithoutFailureWitness ==
    /\ rd.kind = "batching"
    /\ rd.size = 3
    /\ Len(out) = 2
    /\ out[1].err = Nil
    /\ Len(out[1].val) = 2
    /\ out[2] = Res(NilList, EOF)

\* --- Filters and mappers given no function ----------------------------------

\* C23: NewReaderWithFilterFn(r)(nil) is r: its Reads are the Reads of r, with
\* no reader in between; NewWriterWithFilterFn(w)(nil) is w: every value
\* written reaches w, in order, and w's result is what Write returns.
AbsentPredicateIsIdentity ==
    /\ wr = NilWriter =>
           /\ rd.kind \in {"from", "script"}
           /\ Rewound(rd) \in ValueSources
           /\ out = ReadAll(Rewound(rd), Len(out))
           /\ \A k \in 1..Len(out) :
                 /\ out[k] = StreamAt(Rewound(rd), k)
                 /\ pulled[k] = <<>>
    /\ rd = NilReader =>
           /\ wr.kind = "script"
           /\ wr.s = win
           /\ \A k \in 1..Len(win) :
                 /\ wout[k] = ScriptedErr(wr, k)
                 /\ pushed[k] = <<>>

\* The values 1, 0 and io.EOF read through NewReaderWithFilterFn(r)(nil).
AbsentPredicateIsIdentityWitness ==
    /\ wr = NilWriter
    /\ rd.kind = "from"
    /\ rd.vs = <<1, 0>>
    /\ out = <<Res(1, Nil), Res(0, Nil), Res(Zero, EOF)>>

\* C24: NewReaderWithMapperFn(r)(nil) is a reader that holds no reference to
\* r: each of its Reads returns the zero value and io.EOF and pulls nothing.
AbsentMapperIsEmpty ==
    (obj = NoObj /\ wr = NilWriter) =>
        /\ rd.kind = "none"
        /\ "r" \notin DOMAIN rd
        /\ \A k \in 1..Len(out) :
              /\ out[k].err = EOF
              /\ out[k].val = rd.zero
              /\ pulled[k] = <<>>

\* NewReaderWithMapperFn(NewReaderFrom(1, 0))(nil) read twice.
AbsentMapperIsEmptyWitness ==
    /\ obj = NoObj
    /\ rd = NewReaderWithMapperFn(NewReaderFrom(<<1, 0>>, Zero), NoFn)
    /\ out = <<Res(Zero, EOF), Res(Zero, EOF)>>
    /\ pulled = <<<<>>, <<>>>>

\* --- NewReadWriterFrom ------------------------------------------------------

ReadWriterFromIsStack ==
    [][(Len(out') > Len(out) /\ obj.buf # <<>>) =>
           Last(out') = Res(Last(obj.buf), Nil)]_vars

\* --- Encode and decode strategies -------------------------------------------

\* The failure of the j-th call of Encode on an encoder made as e, Nil when
\* that call succeeds.
EncodeFailure(e, j) ==
    CASE e.kind = "json" -> Nil
      [] e.kind = "none" -> ErrClosedPipe
      [] e.kind = "script" -> IF j <= Len(e.script) THEN e.script[j] ELSE Nil

\* The failure of the j-th call of Decode on a decoder of the caller made
\* as d, Nil when that call succeeds.
DecodeFailure(d, j) ==
    CASE d.kind = "none" -> EOF
      [] d.kind = "script" -> IF j <= Len(d.script) THEN d.script[j].err ELSE EOF

\* The number of byte Reads among the first i that pulled a value.
EncodeCalls(i) ==
    Cardinality({m \in 1..i : ByteReads[m].pulls[1].err = Nil})

WriterFromValuesDeliversInOrder ==
    (/\ wr.kind = "fromvalues"
     /\ wr.e.kind = "json"
     /\ \A k \in 1..Len(wr.w.script) : wr.w.script[k] = Nil) =>
        /\ wr.w.s = EncodeAll(win)
        /\ wr.b = <<>>
        /\ \A k \in 1..Len(win) :
              /\ wout[k] = Nil
              /\ pushed[k] = <<Res(Encode(win[k]), Nil)>>

\* The values 1, 0 and 1 written through NewWriterFromValues.
WriterFromValuesDeliversInOrderWitness ==
    /\ wr.kind = "fromvalues"
    /\ wr.w.script = <<Nil, Nil>>
    /\ win = <<1, 0, 1>>
    /\ wr.w.s = <<"1", NL, "0", NL, "1", NL>>

\* Every byte Write so far carried one encoded value.
OneValuePerWrite == \A k \in 1..Len(win) : \E v \in Values : win[k] = Encode(v)

\* The value that win[k] encodes.
Decoded(k) == CHOOSE v \in Values : win[k] = Encode(v)

UnbatchingEmptyListIsEOF ==
    rd.kind = "unbatching" =>
        \A k \in 1..Len(out) :
            (pulled[k] # <<>> /\ pulled[k][1] = Res(NilList, Nil)) =>
                /\ out[k] = Res(Zero, EOF)
                /\ Len(pulled[k]) = 1

\* The first Read pulls the list of 1 and 2; the third pulls an empty list
\* that comes with no failure.
UnbatchingEmptyListIsEOFWitness ==
    /\ rd.kind = "unbatching"
    /\ Len(out) = 3
    /\ pulled[1] = <<Res(<<1, 2>>, Nil)>>
    /\ pulled[3] = <<Res(NilList, Nil)>>
    /\ out[3] = Res(Zero, EOF)

\* --- Unbatching after a list that came with a failure ------------------------

\* The k-th Read pulled a list that is not empty, together with a failure.
PulledListWithFailure(k) ==
    /\ pulled[k] # <<>>
    /\ pulled[k][1].val # <<>>
    /\ pulled[k][1].err # Nil

\* C31: when an unbatching reader pulls a list of L >= 1 elements together
\* with a failure, that Read and the next L - 1 return the elements, and every
\* Read after them returns the zero value with that failure; none of the Reads
\* after the pull pulls the wrapped reader, which stays where the pull left it.
UnbatchingDrainingToExhausted ==
    rd.kind = "unbatching" =>
        \A k \in 1..Len(out) :
            PulledListWithFailure(k) =>
                LET l == pulled[k][1].val
                    e == pulled[k][1].err
                IN  /\ \A m \in k..Len(out) :
                          /\ m > k => pulled[m] = <<>>
                          /\ out[m] = IF m < k + Len(l)
                                      THEN Res(l[m - k + 1], Nil)
                                      ELSE Res(Zero, e)
                    /\ rd.errCache = e
                    /\ rd.r.kind = "script" =>
                          rd.r.pos = Cardinality({m \in 1..k : pulled[m] # <<>>})

\* The first pull returns two elements and a failure; the wrapped reader has
\* a list left to give, yet the third and the later Reads return the failure.
UnbatchingDrainingToExhaustedWitness ==
    /\ rd.kind = "unbatching"
    /\ rd.r.kind = "script"
    /\ Len(rd.r.script) = 2
    /\ rd.r.script[2].val # <<>>
    /\ rd.r.pos = 1
    /\ PulledListWithFailure(1)
    /\ Len(pulled[1][1].val) = 2
    /\ Len(out) = 5
    /\ out[3] = Res(Zero, ErrCustom)
    /\ out[5] = Res(Zero, ErrCustom)


\* The calls that returned element v of the list.
Consumers(v) == {k \in 1..Len(out) : out[k] = Res(v, Nil)}

\* C32: NewReaderFrom has no synchronisation of its own.  As long as no two
\* Read calls on one instance have been in flight at the same time, the k-th
\* call returns the k-th element (io.EOF past the end), as successive calls
\* of the closure do, so that no element is returned twice; double
\* consumption needs two calls that overlap.
SerialisedReadsConsumeOnce ==
    rd.kind = "from" /\ DOMAIN inflight.call # {} =>
        /\ ~inflight.overlapped =>
              /\ ~Crashed
              /\ out = ReadAll(NewReaderFrom(rd.vs, rd.zero), Len(out))
              /\ \A v \in 1..Len(rd.vs) : Cardinality(Consumers(v)) <= 1
        /\ (\E v \in 1..Len(rd.vs) : Cardinality(Consumers(v)) > 1) =>
              inflight.overlapped

\* Two Read calls that overlapped have both returned the first element.
SerialisedReadsConsumeOnceWitness ==
    /\ rd.kind = "from"
    /\ inflight.overlapped
    /\ Len(out) = 2
    /\ out[1] = Res(1, Nil)
    /\ out[2] = Res(1, Nil)
    /\ rd.i = 1
    /\ InFlight = {}


\* Every call logged in log was answered by a reader or writer that honours
\* its context and had been handed ctx.
AnsweredUnder(log, ctx) ==
    \A j \in 1..Len(log) : (log[j].err = ErrCanceled) <=> (ctx = Cancelled)

\* Some call before the k-th pulled a failure out of the wrapped reader.
FailedBefore(k) ==
    \E m \in 1..(k - 1) : pulled[m] # <<>> /\ Last(pulled[m]).err # Nil

\* The combinator r as its constructor returned it.
Rebuilt(r) ==
    CASE r.kind = "batching" ->
             [r EXCEPT !.r = Rewound(r.r), !.errCache = Nil]
      [] r.kind = "unbatching" ->
             [r EXCEPT !.r = Rewound(r.r), !.buf = <<>>, !.errCache = Nil]
      [] r.kind = "mapper" -> [r EXCEPT !.r = Rewound(r.r), !.calls = 0]
      [] OTHER -> [r EXCEPT !.r = Rewound(r.r)]

\* C33: the batching, unbatching, filter and map combinators hand the context
\* of the caller's Read or Write to every Read or Write of the reader or
\* writer they wrap, and never look at it themselves: a wrapped reader or
\* writer that honours its context fails with the context's error exactly in
\* the calls whose context was cancelled; over a wrapped reader that ignores
\* its context the results are those of calls under context.Background(), and
\* a batching Read under a cancelled context pulls until it has size values
\* or the wrapped reader fails.
CtxPassedThrough ==
    /\ rd.kind \in {"batching", "unbatching", "filter", "mapper"} =>
          \A k \in 1..Len(ctxs) :
              /\ rd.r.kind = "ctx" => AnsweredUnder(pulled[k], ctxs[k])
              /\ rd.r.kind = "from" =>
                    /\ out = ReadAll(Rebuilt(rd), Len(out))
                    /\ rd.kind = "batching" /\ ctxs[k] = Cancelled =>
                          IF pulled[k] = <<>>
                          THEN FailedBefore(k)
                          ELSE \/ Len(pulled[k]) = rd.size
                               \/ Last(pulled[k]).err # Nil
    /\ wr.kind \in {"batching", "unbatching", "filter"} =>
          \A k \in 1..Len(ctxs) :
              wr.w.kind = "ctx" => AnsweredUnder(pushed[k], ctxs[k])

\* A batching Read under a cancelled context has pulled two values out of a
\* NewReaderFrom and returned them.
CtxPassedThroughWitness ==
    /\ rd.kind = "batching"
    /\ rd.r.kind = "from"
    /\ rd.size = 2
    /\ Len(ctxs) = 1
    /\ ctxs[1] = Cancelled
    /\ Len(pulled[1]) = 2
    /\ Len(out[1].val) = 2
    /\ out[1].err = Nil


\* The k-th Read pulled a failure out of the wrapped reader.
PulledFailure(k) == pulled[k] # <<>> /\ Last(pulled[k]).err # Nil

\* The wrapped reader has a value to give.
UnderlyingHasValue ==
    \/ rd.r.kind = "readwriter" /\ rd.r.impl.buf # <<>>
    \/ /\ rd.r.kind = "script"
       /\ rd.r.pos < Len(rd.r.script)
       /\ rd.r.script[rd.r.pos + 1].err = Nil

\* C34: once the wrapped reader has returned a failure to a batching reader,
\* the batching reader does not pull it again: the Read that met the failure
\* returns the values it had pulled before, with a nil error when there are
\* some and with the failure when there are none, and every later Read
\* returns an empty list with that failure, whatever the wrapped reader has
\* to give by then.
BatchingFailureSticky ==
    rd.kind = "batching" =>
        /\ \A k \in 1..Len(out) :
              PulledFailure(k) =>
                  LET e == Last(pulled[k]).err
                      s == Vals(SubSeq(pulled[k], 1, Len(pulled[k]) - 1))
                  IN  /\ out[k] = Res(s, IF s = <<>> THEN e ELSE Nil)
                      /\ rd.errCache = e
                      /\ \A m \in (k + 1)..Len(out) :
                            /\ pulled[m] = <<>>
                            /\ out[m] = Res(<<>>, e)
        /\ rd.errCache # Nil =>
              /\ \E k \in 1..Len(out) : PulledFailure(k)
              /\ Read(rd, Background) =
                    [val |-> <<>>, err |-> rd.errCache, rd |-> rd,
                     log |-> <<>>]

\* A NewReadWriterFrom was written to after the batching reader over it met
\* io.EOF, and the Reads since return the empty list and io.EOF.
BatchingFailureStickyWitness ==
    /\ rd.kind = "batching"
    /\ rd.r.kind = "readwriter"
    /\ UnderlyingHasValue
    /\ Len(out) = 3
    /\ PulledFailure(2)
    /\ out[2].val # <<>>
    /\ out[2].err = Nil
    /\ out[3] = Res(<<>>, EOF)
    /\ win # <<>>


\* C35: a batching writer of size S calls the writer it wraps during every
\* S-th Write, with the S values written since the last such call, and that
\* Write returns what the call returned; when the call fails the values of
\* its list are offered to the wrapped writer in no later call.  The Writes
\* in between return nil and call nothing, also after a failed call, and
\* the list of the next call holds only values written after the failed one.
FailedFlushDiscardsBatch ==
    (wr.kind = "batching" /\ wr.size >= 1) =>
        LET S == wr.size
        IN  /\ \A n \in 1..Len(win) :
                  IF n % S = 0
                  THEN /\ wout[n] = ScriptedErr(wr.w, n \div S)
                       /\ pushed[n] = <<Res(SubSeq(win, n - S + 1, n), wout[n])>>
                  ELSE /\ wout[n] = Nil
                       /\ pushed[n] = <<>>
            /\ wr.w.s = [j \in 1..(Len(win) \div S) |->
                            SubSeq(win, (j - 1) * S + 1, j * S)]

\* With size two the first flush failed; the Write after it returned nil and
\* the second flush offered the third and fourth values only.
FailedFlushDiscardsBatchWitness ==
    /\ wr.kind = "batching"
    /\ wr.size = 2
    /\ Len(win) = 4
    /\ wout[2] # Nil
    /\ wout[3] = Nil
    /\ wout[4] = Nil
    /\ win[1] # win[3]
    /\ wr.w.s = <<SubSeq(win, 1, 2), SubSeq(win, 3, 4)>>
    /\ pushed[4] = <<Res(SubSeq(win, 3, 4), Nil)>>

\* The values a batching writer has passed on, in the order of the calls.
Flushed == Concat([n \in 1..Len(pushed) |-> Vals(pushed[n])])

\* C36: a batching writer of size S >= 1 holds, after every Write, fewer
\* than S values, as many as the number of Writes modulo S; they are the
\* values written last, in order; and the lists it has passed on are the
\* successive runs of the values written before those, so that no written
\* value is in two lists.
BatchingWriterBufferInvariant ==
    (wr.kind = "batching" /\ wr.size >= 1) =>
        LET S == wr.size
            k == Len(win)
        IN  /\ Len(wr.buf) < S
            /\ Len(wr.buf) = k % S
            /\ wr.buf = SubSeq(win, k - (k % S) + 1, k)
            /\ Concat(Flushed) = SubSeq(win, 1, k - (k % S))
            /\ \A n \in 1..Len(Flushed) : Len(Flushed[n]) = S

\* With size three and five Writes the buffer holds the last two values,
\* which differ, and one list has been passed on.
BatchingWriterBufferInvariantWitness ==
    /\ wr.kind = "batching"
    /\ wr.size = 3
    /\ Len(win) = 5
    /\ wr.buf = <<win[4], win[5]>>
    /\ win[4] # win[5]
    /\ Len(Flushed) = 1


\* The calls before the k-th that pulled the wrapped reader.
PullsBefore(k) == {m \in 1..(k - 1) : pulled[m] # <<>>}

\* The elements of the lists pulled before the k-th Read, in order.
ElementsBefore(k) == Concat(Vals(Concat(SubSeq(pulled, 1, k - 1))))

\* The number of elements returned before the k-th Read.
ReturnedBefore(k) == Cardinality({m \in 1..(k - 1) : out[m].err = Nil})

\* A failure that came with a list of some elements before the k-th Read.
CachedBefore(k) == \E m \in 1..(k - 1) : PulledListWithFailure(m)

\* C37: a Read of an unbatching reader pulls the wrapped reader at most
\* once, and it pulls exactly when no pulled element is waiting to be
\* returned and no failure has been put aside; while elements are waiting,
\* a Read returns the first of them and leaves the wrapped reader as it was.
UnbatchingPullsLazily ==
    rd.kind = "unbatching" =>
        /\ \A k \in 1..Len(out) :
              LET waiting == Len(ElementsBefore(k)) - ReturnedBefore(k)
              IN  /\ Len(pulled[k]) <= 1
                  /\ pulled[k] # <<>> <=> (waiting = 0 /\ ~CachedBefore(k))
                  /\ waiting > 0 =>
                        out[k] =
                            Res(ElementsBefore(k)[ReturnedBefore(k) + 1], Nil)
        /\ rd.r.kind = "script" =>
              rd.r.pos = Min(Cardinality(PullsBefore(Len(out) + 1)),
                             Len(rd.r.script))
        /\ rd.buf # <<>> =>
              LET x == Read(rd, Background)
              IN  /\ x.log = <<>>
                  /\ x.rd.r = rd.r
                  /\ Res(x.val, x.err) = Res(Head(rd.buf), Nil)

\* A list of two elements was pulled by the first Read; the second Read
\* returned its second element without a pull, although the wrapped reader
\* had another list to give.
UnbatchingPullsLazilyWitness ==
    /\ rd.kind = "unbatching"
    /\ rd.r.kind = "script"
    /\ Len(rd.r.script) = 2
    /\ rd.r.pos = 1
    /\ rd.r.script[2].val # <<>>
    /\ Len(out) = 2
    /\ pulled[1] = <<Res(<<1, 2>>, Nil)>>
    /\ pulled[2] = <<>>
    /\ out[2] = Res(2, Nil)


\* The reader at the bottom of the pipeline r.
RECURSIVE Source(_)
Source(r) == IF "r" \in DOMAIN r THEN Source(r.r) ELSE r

\* The wrapped reader of the filter rd sooner or later fails or returns a
\* value that rd accepts.
WrappedYields ==
    \/ Source(rd).kind = "from"
    \/ Source(rd).kind = "repeat" /\ Source(rd).v \in rd.f.fn

\* A batching Read in progress has called the wrapped reader at most size
\* times.
BatchingPullsBounded ==
    \A d \in 1..Depth :
        NodeAt(rd, d).kind = "batching" =>
            /\ inflight.call[d].pulls <= NodeAt(rd, d).size
            /\ inflight.call[d].i <= inflight.call[d].pulls

\* C38: a Read of a batching reader calls the wrapped reader at most size
\* times; and a Read of a composition of batching, unbatching, filter and map
\* readers over NewReaderFrom, or of a filter over a reader that goes on
\* returning a value the filter accepts, returns.
ReadsTerminate ==
    /\ [](DOMAIN inflight.call # {} => BatchingPullsBounded)
    /\ [](WrappedYields => (Depth > 0 ~> Depth = 0))

\* A Read of a filter over an unbatching reader over a batching reader over
\* NewReaderFrom has returned io.EOF after an element.
ReadsTerminateWitness ==
    /\ rd.kind = "filter"
    /\ rd.r.kind = "unbatching"
    /\ Source(rd).kind = "from"
    /\ Len(Source(rd).vs) = 2
    /\ rd.f.fn # Values
    /\ Len(out) = 2
    /\ out[1].err = Nil
    /\ out[2].err = EOF
    /\ "ret" \in DOMAIN inflight
    /\ Depth = 0


\* --- One value for each byte Write ------------------------------------------

\* The values that the bytes bs encode, in order.
ValuesIn(bs) ==
    LET ds == SelectSeq(bs, LAMBDA c : c # NL)
    IN  [j \in 1..Len(ds) |-> DigitValue(ds[j])]

\* The number of byte Writes before the k-th that wrote a value to the
\* wrapped writer.
ForwardsBefore(k) == Cardinality({m \in 1..(k - 1) : pushed[m] # <<>>})

\* C39: a byte Write to NewWriterFromBytes writes at most one value to the
\* wrapped writer: the first value of the bytes written so far that no
\* earlier Write has passed on.  After a byte Write that carried two values
\* and passed one on, the other one waits for the next byte Write, which
\* passes one value on again.
ByteWriteForwardsOneValue ==
    (wr.kind = "bytewriter" /\ wr.d.d.kind = "json"
                            /\ wr.w.kind = "script") =>
        /\ \A k \in 1..Len(win) :
              /\ Len(pushed[k]) <= 1
              /\ pushed[k] # <<>> =>
                    pushed[k][1].val =
                        ValuesIn(Concat(SubSeq(win, 1, k)))[
                            ForwardsBefore(k) + 1]
              /\ (/\ Len(ValuesIn(win[k])) > 1
                  /\ pushed[k] # <<>>
                  /\ k < Len(win)) => Len(pushed[k + 1]) = 1
        /\ wr.w.s = Vals(Concat(pushed))
        /\ Len(wr.w.s) <= Len(win)

\* The first byte Write carried the encodings of 0 and of MaxVal and passed
\* on 0; the second carried a newline only and passed on MaxVal.
ByteWriteForwardsOneValueWitness ==
    /\ wr.kind = "bytewriter"
    /\ wr.d.d.kind = "json"
    /\ wr.w.kind = "script"
    /\ win = <<Encode(0) \o Encode(MaxVal), <<NL>>>>
    /\ Vals(pushed[1]) = <<0>>
    /\ Vals(pushed[2]) = <<MaxVal>>
    /\ wr.w.s = <<0, MaxVal>>

====
